---- MODULE Spec2Model ----
(***************************************************************************)
(* Screenshot-Renamer: the Change Detector (src/src/folder-watcher.js),    *)
(* the Analyzer Port (gemini / lmstudio / ollama analyzers, ai-utils.js),  *)
(* the Clipboard Publisher (src/src/clipboard-manager.js) and the Batch    *)
(* Controller (batch-renamer.js, batch-settings.js).                       *)
(*                                                                         *)
(* File names and analyzer texts are sequences of one-character strings,   *)
(* so that the cleaning, the skip tests and the conflict suffixes are      *)
(* computed character by character as the JavaScript computes them.        *)
(***************************************************************************)
EXTENDS Integers, Sequences, FiniteSets, TLC

(***************************************************************************)
(* Characters and JavaScript string primitives                             *)
(***************************************************************************)
UpperChars == <<"A","B","C","D","E","F","G","H","I","J","K","L","M",
                "N","O","P","Q","R","S","T","U","V","W","X","Y","Z">>

LowerChars == <<"a","b","c","d","e","f","g","h","i","j","k","l","m",
                "n","o","p","q","r","s","t","u","v","w","x","y","z">>

DigitChars == <<"0","1","2","3","4","5","6","7","8","9">>

Range(s) == {s[i] : i \in 1..Len(s)}

IsUpper(c) == c \in Range(UpperChars)

IsLower(c) == c \in Range(LowerChars)

IsDigit(c) == c \in Range(DigitChars)

\* \w of a JavaScript regular expression: [A-Za-z0-9_]
IsWordChar(c) == IsUpper(c) \/ IsLower(c) \/ IsDigit(c) \/ c = "_"

\* \s of a JavaScript regular expression (the white space the inputs use)
IsSpace(c) == c \in {" ", "\t", "\n"}

ToLowerChar(c) ==
  IF IsUpper(c) THEN LowerChars[CHOOSE i \in 1..26 : UpperChars[i] = c] ELSE c

\* String.prototype.toLowerCase
ToLowerCase(s) == [i \in 1..Len(s) |-> ToLowerChar(s[i])]

\* String.prototype.trim
RECURSIVE TrimLeft(_)
TrimLeft(s) == IF s # <<>> /\ IsSpace(Head(s)) THEN TrimLeft(Tail(s)) ELSE s

RECURSIVE TrimRight(_)
TrimRight(s) ==
  IF s # <<>> /\ IsSpace(s[Len(s)]) THEN TrimRight(SubSeq(s, 1, Len(s) - 1)) ELSE s

Trim(s) == TrimRight(TrimLeft(s))

\* String.prototype.substring(0, n)
Substring0(s, n) == IF Len(s) <= n THEN s ELSE SubSeq(s, 1, n)

\* String.prototype.includes
Includes(s, sub) ==
  \E i \in 1..(Len(s) - Len(sub) + 1) : SubSeq(s, i, i + Len(sub) - 1) = sub

EndsWith(s, suf) ==
  Len(suf) <= Len(s) /\ SubSeq(s, Len(s) - Len(suf) + 1, Len(s)) = suf

NotDropped(c) == c # ""

\* s.replace(/[^\w\s-]/g, '')
StripSpecial(s) ==
  LET Keep(c) == IsWordChar(c) \/ IsSpace(c) \/ c = "-" IN SelectSeq(s, Keep)

\* s.replace(/\s+/g, sep): every maximal run of white space becomes one sep
SpacesTo(s, sep) ==
  LET m == [i \in 1..Len(s) |->
              IF IsSpace(s[i])
              THEN (IF i > 1 /\ IsSpace(s[i - 1]) THEN "" ELSE sep)
              ELSE s[i]]
  IN SelectSeq(m, NotDropped)

\* s.replace(/c+/g, c) for a literal character c: runs of c collapse to one c
CollapseRuns(s, c) ==
  LET m == [i \in 1..Len(s) |->
              IF s[i] = c /\ i > 1 /\ s[i - 1] = c THEN "" ELSE s[i]]
  IN SelectSeq(m, NotDropped)

\* s.replace(/^c|c$/g, ''): one leading and one trailing c are removed
TrimSep(s, c) ==
  LET a == IF s # <<>> /\ Head(s) = c THEN Tail(s) ELSE s
  IN IF a # <<>> /\ a[Len(a)] = c THEN SubSeq(a, 1, Len(a) - 1) ELSE a

AllDigits(s) == \A i \in 1..Len(s) : IsDigit(s[i])

\* Number -> decimal digits, as template strings print a counter
RECURSIVE NatToChars(_)
NatToChars(n) ==
  IF n < 10 THEN <<DigitChars[n + 1]>>
  ELSE NatToChars(n \div 10) \o <<DigitChars[(n % 10) + 1]>>

(***************************************************************************)
(* Paths (Node's path module) and the clock                                *)
(***************************************************************************)
\* index of the last "." of a name, 0 when there is none
LastDot(name) ==
  LET ds == {i \in 1..Len(name) : name[i] = "."}
  IN IF ds = {} THEN 0 ELSE CHOOSE i \in ds : \A j \in ds : j <= i

\* path.extname: from the last "." on, "" for no dot and for a leading dot
ExtName(name) ==
  IF LastDot(name) <= 1 THEN <<>> ELSE SubSeq(name, LastDot(name), Len(name))

\* path.basename(p, ext): the suffix is removed only when it matches exactly
BaseName(name, ext) ==
  IF ext # <<>> /\ EndsWith(name, ext) /\ Len(name) > Len(ext)
  THEN SubSeq(name, 1, Len(name) - Len(ext))
  ELSE name

\* path.join(dir, name) / path.dirname / path.basename of a full path
PathJoin(dir, name) == [dir |-> dir, name |-> name]

\* The ten leading digits that Date.now() prints throughout a run; the clock
\* of the model counts the milliseconds below them.
EpochPrefix == <<"1","7","1","8","9","0","1","0","1","5">>

Pad3(t) ==
  <<DigitChars[((t \div 100) % 10) + 1], DigitChars[((t \div 10) % 10) + 1],
    DigitChars[(t % 10) + 1]>>

\* `${Date.now()}`: thirteen decimal digits
DateNow(t) == EpochPrefix \o Pad3(t)

(***************************************************************************)
(* ai-utils.js                                                             *)
(***************************************************************************)
\* The length limit of a cleaned name
MaxNameLen == 50

AnalyzedImage == <<"a","n","a","l","y","z","e","d","_","i","m","a","g","e">>

ImageWord == <<"i","m","a","g","e">>

ScreenshotWord == <<"s","c","r","e","e","n","s","h","o","t">>

ImgWord == <<"i","m","g">>

\* The chain of replacements shared by cleanFilename and generateFileName
CleanChain(text) ==
  Substring0(
    TrimSep(CollapseRuns(SpacesTo(StripSpecial(ToLowerCase(text)), "_"), "_"), "_"),
    MaxNameLen)

cleanFilename(text) ==
  IF CleanChain(text) = <<>> THEN AnalyzedImage ELSE CleanChain(text)

\* A fallback name that keeps the stem of the original file
StemFallbackName(imageName, t) ==
  BaseName(imageName, ExtName(imageName)) \o <<"_">> \o DateNow(t)

getFallbackName(imageName, t) ==
  LET basename == BaseName(imageName, ExtName(imageName))
  IN IF Includes(ToLowerCase(basename), ScreenshotWord)
     THEN ScreenshotWord \o <<"_">> \o DateNow(t)
     ELSE ImageWord \o <<"_">> \o DateNow(t)

(***************************************************************************)
(* The analyzers.  An inference call ends in an outcome: a record whose    *)
(* kind is "text" (a well-formed answer carrying text, possibly empty) or  *)
(* the way the call failed.                                                *)
(***************************************************************************)
\* The JavaScript null: a value distinct from every string
Null == <<"<null>">>

\* !value of JavaScript, for a value that is null or a string
Falsy(v) == v = Null \/ v = <<>>

Providers == {"gemini", "lmstudio", "ollama"}

\* network error, non-2xx status, malformed payload, answer without choices
CallFailures == {"network", "status", "malformed", "nochoices"}

TextOutcome(text) == [kind |-> "text", text |-> text]

FailOutcome(kind) == [kind |-> kind, text |-> <<>>]

IsFailure(outcome) == outcome.kind \in CallFailures

\* GeminiVisionAnalyzer.analyzeImage; initialized is (this.model != null)
GeminiAnalyzeImage(initialized, imageName, outcome, t) ==
  IF ~initialized THEN Null
  ELSE IF IsFailure(outcome) THEN getFallbackName(imageName, t)
  ELSE cleanFilename(Trim(outcome.text))

\* LMStudioVisionAnalyzer.analyzeImage: every failure, a missing
\* configuration included, lands in the catch block
LMStudioAnalyzeImage(initialized, imageName, outcome, t) ==
  IF ~initialized THEN getFallbackName(imageName, t)
  ELSE IF IsFailure(outcome) THEN getFallbackName(imageName, t)
  ELSE cleanFilename(Trim(outcome.text))

\* OllamaAnalyzer.analyzeImage: a null client throws inside the try block,
\* and an empty response string is falsy and is thrown as 'No response'
OllamaAnalyzeImage(initialized, imageName, outcome, t) ==
  IF ~initialized THEN getFallbackName(imageName, t)
  ELSE IF IsFailure(outcome) \/ outcome.text = <<>> THEN getFallbackName(imageName, t)
  ELSE cleanFilename(Trim(outcome.text))

\* The inference requests one analyzeImage call issues: the gemini analyzer
\* returns before its request when this.model is not set; otherwise there
\* is the one awaited call, with no loop around it
InferenceRequests(provider, initialized) ==
  IF provider = "gemini" /\ ~initialized THEN 0 ELSE 1

analyzeImage(provider, initialized, imageName, outcome, t) ==
  CASE provider = "gemini" -> GeminiAnalyzeImage(initialized, imageName, outcome, t)
    [] provider = "lmstudio" -> LMStudioAnalyzeImage(initialized, imageName, outcome, t)
    [] provider = "ollama" -> OllamaAnalyzeImage(initialized, imageName, outcome, t)

(***************************************************************************)
(* folder-watcher.js: the pure parts of handleNewFile and generateFileName *)
(***************************************************************************)
\* this.imageExtensions
ImageExtensions ==
  { <<".","p","n","g">>, <<".","j","p","g">>, <<".","j","p","e","g">>,
    <<".","g","i","f">>, <<".","w","e","b","p">> }

IsLowerOrUnderscore(c) == IsLower(c) \/ c = "_"

\* /^[a-z_]+(_\d+)?$/.test(s)
MatchesProcessedPattern(s) ==
  /\ s # <<>>
  /\ \/ \A i \in 1..Len(s) : IsLowerOrUnderscore(s[i])
     \/ \E k \in 2..(Len(s) - 1) :
          /\ \A i \in 1..(k - 1) : IsLowerOrUnderscore(s[i])
          /\ s[k] = "_"
          /\ \A i \in (k + 1)..Len(s) : IsDigit(s[i])

\* A watcher without the already-processed check
NeverProcessed(fileName) == FALSE

\* handleNewFile's test on the stem: fileName.includes('_') && regex
LooksProcessed(fileName) ==
  Includes(fileName, <<"_">>) /\ MatchesProcessedPattern(fileName)

\* generateFileName: the generic-or-empty test on the cleaned text
IsGenericName(fileName) ==
  fileName = <<>> \/ Len(fileName) < 3 \/ fileName = ImageWord \/ fileName = ScreenshotWord

\* generateFileName: `${fileName || 'image'}_${timestamp}${extension}`
TimestampName(fileName, ext, t) ==
  (IF fileName = <<>> THEN ImageWord ELSE fileName) \o <<"_">> \o DateNow(t) \o ext

\* A candidate that carries the counter from the first attempt on
SuffixedCandidate(fileName, ext, k) == fileName \o <<"_">> \o NatToChars(k) \o ext

\* The candidate the conflict loop tries with the counter at k:
\* `${fileName}${extension}` first, then `${fileName}_${counter}${extension}`
Candidate(fileName, ext, k) ==
  IF k = 1 THEN fileName \o ext ELSE fileName \o <<"_">> \o NatToChars(k) \o ext

(***************************************************************************)
(* clipboard-manager.js                                                    *)
(***************************************************************************)
\* this.copyMethods, in priority order
copyMethods == <<"Swift Helper", "AppleScript", "pbcopy">>

\* What the platform does to one clipboard call: which of the external
\* programs work.  helperExists: the compiled copy-helper is installed.
ClipEnvs ==
  [isMacOS : BOOLEAN, helperExists : BOOLEAN, helperOk : BOOLEAN,
   uiOk : BOOLEAN, scriptOk : BOOLEAN, pbcopyOk : BOOLEAN]

\* copyWithSwiftHelper: false without the helper or when its execution throws
copyWithSwiftHelper(env) == env.helperExists /\ env.helperOk

\* copyWithAppleScript: Finder automation, then the typed-data script
copyWithAppleScript(env) == env.uiOk \/ env.scriptOk

\* copyWithPbcopy
copyWithPbcopy(env) == env.pbcopyOk

\* await method(imagePath): "true", "false" or "throw"; the three methods
\* catch their own errors, so none of them throws
MethodResult(name, env) ==
  LET ok == CASE name = "Swift Helper" -> copyWithSwiftHelper(env)
              [] name = "AppleScript" -> copyWithAppleScript(env)
              [] name = "pbcopy" -> copyWithPbcopy(env)
  IN IF ok THEN "true" ELSE "false"

\* A loop that goes through every method whatever the earlier ones returned
RECURSIVE ExhaustiveLoop(_, _, _)
ExhaustiveLoop(i, env, tried) ==
  IF i > Len(copyMethods)
  THEN IF \E j \in 1..Len(tried) : MethodResult(tried[j], env) = "true"
       THEN [result |-> "true", error |-> "", tried |-> tried]
       ELSE [result |-> "throw", error |-> "All clipboard copy methods failed",
             tried |-> tried]
  ELSE ExhaustiveLoop(i + 1, env, Append(tried, copyMethods[i]))

\* A loop that gives up at the first method that does not succeed
FailFastLoop(i, env, tried) ==
  IF i > Len(copyMethods)
  THEN [result |-> "throw", error |-> "All clipboard copy methods failed",
        tried |-> tried]
  ELSE IF MethodResult(copyMethods[i], env) = "true"
       THEN [result |-> "true", error |-> "", tried |-> Append(tried, copyMethods[i])]
       ELSE [result |-> "throw", error |-> "All clipboard copy methods failed",
             tried |-> Append(tried, copyMethods[i])]

\* The for loop of copyImageToClipboard from method i on; tried lists the
\* methods invoked so far
RECURSIVE CopyLoop(_, _, _)
CopyLoop(i, env, tried) ==
  IF i > Len(copyMethods)
  THEN [result |-> "throw", error |-> "All clipboard copy methods failed",
        tried |-> tried]
  ELSE IF MethodResult(copyMethods[i], env) = "true"
       THEN [result |-> "true", error |-> "", tried |-> Append(tried, copyMethods[i])]
       ELSE CopyLoop(i + 1, env, Append(tried, copyMethods[i]))

\* copyImageToClipboard(imagePath); fileExists is fs.existsSync(imagePath)
copyImageToClipboard(fileExists, env) ==
  IF ~env.isMacOS
  THEN [result |-> "throw", error |-> "Clipboard operations only supported on macOS",
        tried |-> <<>>]
  ELSE IF ~fileExists
  THEN [result |-> "throw", error |-> "Image file not found", tried |-> <<>>]
  ELSE CopyLoop(1, env, <<>>)

(***************************************************************************)
(* batch-renamer.js and batch-settings.js: the pure parts                  *)
(***************************************************************************)
\* String.prototype.split(c): the pieces between the occurrences of c
RECURSIVE SplitOn(_, _)
SplitOn(s, c) ==
  LET cs == {i \in 1..Len(s) : s[i] = c}
  IN IF cs = {} THEN <<s>>
     ELSE LET i == CHOOSE x \in cs : \A y \in cs : x <= y
          IN <<SubSeq(s, 1, i - 1)>> \o SplitOn(SubSeq(s, i + 1, Len(s)), c)

\* The length of the timestamp isAiProcessedFile recognises (/^\d{13}$/)
TimestampLen == 13

\* The least number of parts of a processed stem, of meaningful parts among
\* them, and the least length of a meaningful part
MinParts == 3

MinMeaningful == 2

MinWordLen == 3

PicWord == <<"p","i","c">>

PhotoWord == <<"p","h","o","t","o">>

GenericTerms == {ImageWord, ScreenshotWord, ImgWord, PicWord, PhotoWord}

\* A part is taken for a word as soon as it is long enough
LongEnough(part) == Len(part) >= MinWordLen

IsMeaningful(part) ==
  Len(part) >= MinWordLen /\ ~(part # <<>> /\ AllDigits(part)) /\ part \notin GenericTerms

isAiProcessedFile(fileName) ==
  LET parts == SplitOn(ToLowerCase(fileName), "_")
  IN IF /\ Len(parts) = 2
        /\ parts[1] \in {ImageWord, ScreenshotWord, ImgWord}
        /\ Len(parts[2]) = TimestampLen /\ AllDigits(parts[2])
     THEN FALSE
     ELSE IF Len(parts) >= MinParts
          THEN Cardinality({i \in 1..Len(parts) : IsMeaningful(parts[i])}) >= MinMeaningful
          ELSE FALSE

\* /^(image|screenshot|img)_\d+$/.test(s)
MatchesFallbackPattern(s) ==
  \E w \in {ImageWord, ScreenshotWord, ImgWord} :
    /\ Len(s) > Len(w) + 1
    /\ SubSeq(s, 1, Len(w) + 1) = w \o <<"_">>
    /\ AllDigits(SubSeq(s, Len(w) + 2, Len(s)))

\* The length below which isGenericFallback calls an analysis too short
MinAnalysisLen == 5

isGenericFallback(analysis) ==
  IF Falsy(analysis) THEN TRUE
  ELSE LET cleaned == Trim(ToLowerCase(analysis))
       IN \/ MatchesFallbackPattern(cleaned)
          \/ Len(cleaned) < MinAnalysisLen
          \/ cleaned = ImageWord
          \/ cleaned = ScreenshotWord

\* s.replace(new RegExp(`${separator}+`, 'g'), separator): a "." separator
\* is the regular expression that matches any character
ReCollapse(s, sep) ==
  IF sep = "." THEN (IF s = <<>> THEN <<>> ELSE <<".">>) ELSE CollapseRuns(s, sep)

\* s.replace(new RegExp(`^${separator}|${separator}$`, 'g'), '')
ReTrim(s, sep) ==
  IF sep = "."
  THEN (IF Len(s) <= 2 THEN <<>> ELSE SubSeq(s, 2, Len(s) - 1))
  ELSE TrimSep(s, sep)

\* new Date().toISOString().split('T')[0] on the day of the run
CurrentDate == <<"2","0","2","4","-","0","6","-","2","0">>

\* filenameFormat with its placeholders replaced
ApplyFormat(format, description, prefix) ==
  LET pre == IF prefix = <<>> THEN ImgWord ELSE prefix
  IN CASE format = "{description}" -> description
       [] format = "{prefix}_{description}" -> pre \o <<"_">> \o description
       [] format = "{prefix}-{description}" -> pre \o <<"-">> \o description
       [] format = "{date}_{prefix}_{description}" ->
            CurrentDate \o <<"_">> \o pre \o <<"_">> \o description

\* BatchSettings.generateFilename(analysis, originalExt, settings)
generateFilename(analysis, originalExt, settings, t) ==
  LET sep == settings.separator
      d0 == Substring0(
              ReTrim(ReCollapse(SpacesTo(StripSpecial(ToLowerCase(analysis)), sep), sep), sep),
              MaxNameLen)
      description == IF IsGenericName(d0) THEN ImageWord \o <<sep>> \o DateNow(t) ELSE d0
      filename == ApplyFormat(settings.filenameFormat, description, settings.defaultPrefix)
  IN ReTrim(ReCollapse(filename, sep), sep) \o originalExt

\* The while loop of findUniqueFilename with the counter at k; names are the
\* names that exist in the directory
RECURSIVE FindUniqueLoop(_, _, _, _, _)
FindUniqueLoop(filename, nameWithoutExt, ext, counter, names) ==
  IF filename \in names
  THEN FindUniqueLoop(nameWithoutExt \o <<"_">> \o NatToChars(counter + 1) \o ext,
                      nameWithoutExt, ext, counter + 1, names)
  ELSE filename

\* BatchSettings.findUniqueFilename(baseFilename, directory)
findUniqueFilename(baseFilename, names) ==
  LET ext == ExtName(baseFilename)
  IN FindUniqueLoop(baseFilename, BaseName(baseFilename, ext), ext, 1, names)

(***************************************************************************)
(* Inputs of the model                                                     *)
(***************************************************************************)
\* Bounds: files that appear from outside, duplicate 'add' events, handler
\* invocations that pass the in-flight guard, and clock ticks
MaxFiles == 2

MaxDup == 2

MaxInv == 2

MaxTick == 2

WatchDir == "watch"

DestDir == "dest"

PngExt == <<".","p","n","g">>

\* Names of the files that appear in the watched folder
ScreenshotFile == <<"S","c","r","e","e","n","s","h","o","t"," ","1",".","p","n","g">>

UpperExtFile == <<"p","i","c",".","P","N","G">>

TextFile == <<"n","o","t","e",".","t","x","t">>

NewFileNames == {ScreenshotFile, UpperExtFile, TextFile}

\* A file that a former run left in the watched folder
LoginScreenFile == <<"l","o","g","i","n","_","s","c","r","e","e","n",".","p","n","g">>

\* Texts the inference backends answer with
LoginScreenText == <<"L","o","g","i","n"," ","S","c","r","e","e","n">>

HyphenText == <<"L","o","g","-","i","n">>

OneWordText == <<"M","e","n","u">>

GenericText == <<"I","m","a","g","e">>

AnswerTexts == {LoginScreenText, HyphenText, OneWordText, GenericText, <<>>}

\* The outcomes of an inference call the watcher and the batch run draw from
CallOutcomes == {TextOutcome(x) : x \in AnswerTexts} \cup {FailOutcome("network")}

\* Configuration snapshots config.load() can return
Config(provider, key, clipboard) ==
  [aiProvider |-> provider, geminiApiKey |-> key, watchFolder |-> WatchDir,
   copyToClipboard |-> clipboard]

\* The configuration the service passed its startup checks with; the file
\* may be edited afterwards, and every handler reloads it
StartupConfig == Config("gemini", TRUE, TRUE)

\* The runs of the watcher the model explores: a configuration, the number
\* of files that appear, and the number of duplicate 'add' events
\* start is the configuration file when the service starts, config what
\* it is edited to (before the first file appears unless late is set);
\* signals and stops are the reload and termination signals that arrive
Run(cfg, files, dupEvents) ==
  [start |-> StartupConfig, config |-> cfg, files |-> files, dups |-> dupEvents,
   late |-> FALSE, signals |-> 0, stops |-> 0]

\* An edit that changes the provider, the folder and the clipboard flag
EditedConfig == [Config("ollama", FALSE, FALSE) EXCEPT !.watchFolder = DestDir]

\* An edit that names a provider the factory does not know
UnknownConfig == Config("openai", TRUE, TRUE)

\* A configuration file without the API key the gemini provider needs
NoKeyConfig == Config("gemini", FALSE, TRUE)

WatcherRuns ==
  { Run(Config("gemini", TRUE, TRUE), MaxFiles, 0),
    Run(Config("ollama", FALSE, FALSE), MaxFiles, 0),
    Run(Config("gemini", FALSE, TRUE), MaxFiles - 1, 0),
    Run(Config("gemini", TRUE, TRUE), MaxFiles - 1, MaxDup),
    [Run(EditedConfig, MaxFiles - 1, 0) EXCEPT !.late = TRUE, !.signals = 1],
    Run(UnknownConfig, MaxFiles - 1, 0),
    [Run(StartupConfig, MaxFiles - 1, 0) EXCEPT !.stops = 1],
    [Run(NoKeyConfig, MaxFiles - 1, 0) EXCEPT !.start = NoKeyConfig] }

\* Platform states a clipboard call of the watcher or the batch run meets:
\* every strategy works, only pbcopy works, nothing works
AllWork ==
  [isMacOS |-> TRUE, helperExists |-> TRUE, helperOk |-> TRUE, uiOk |-> TRUE,
   scriptOk |-> TRUE, pbcopyOk |-> TRUE]

OnlyPbcopy ==
  [isMacOS |-> TRUE, helperExists |-> FALSE, helperOk |-> FALSE, uiOk |-> FALSE,
   scriptOk |-> FALSE, pbcopyOk |-> TRUE]

NoneWork ==
  [isMacOS |-> TRUE, helperExists |-> TRUE, helperOk |-> FALSE, uiOk |-> FALSE,
   scriptOk |-> FALSE, pbcopyOk |-> FALSE]

RunClipEnvs == {AllWork, OnlyPbcopy, NoneWork}

(***************************************************************************)
(* State                                                                   *)
(***************************************************************************)
VARIABLES
  mode,             \* the entry point and how far it is: "starting",
                    \* "connecting", "watch", "refused", "exited", "batch", ...
  service,          \* ScreenshotRenamer: what start() has checked and done
  fs,               \* the file system: path -> identity of the file there
  now,              \* the latest reading of the clock, in milliseconds
  log,              \* the logging sink: set of [level, msg, file]
  lost,             \* identities of files destroyed by an overwrite
  config,           \* FolderWatcher / BatchRenamer this.config
  diskConfig,       \* what config.load() returns
  events,           \* 'add' events chokidar has not delivered yet
  processingFiles,  \* FolderWatcher.processingFiles
  inv,              \* handleNewFile invocations that passed the guard
  budget,           \* how many files and duplicate events this run sees
  created,          \* files created from outside so far
  dups,             \* duplicate 'add' events emitted so far
  renamedTo,        \* paths the watcher renamed a file to
  dirs,             \* the directories that exist
  settings,         \* the batch settings BatchSettings.load() returns
  batch,            \* the state of BatchRenamer.processFolder
  call              \* a single call of one operation: its arguments and result

vars ==
  <<service, mode, fs, now, log, lost, config, diskConfig, events, processingFiles,
    inv, budget, created, dups, renamedTo, dirs, settings, batch, call>>

Exists(path) == path \in DOMAIN fs

\* Date.now(): the clock never runs backwards; now is its latest reading.
\* Every run of the batch command has MaxTick further readings
ClockReadings == now..(MaxTick * batch.run)

\* Date.now() after 'await this.delay(250)' of an invocation that started
\* when the clock read since: the clock has moved on
LaterReadings(since) == {t \in ClockReadings : t > since}

NamesIn(dir) == {q.name : q \in {x \in DOMAIN fs : x.dir = dir}}

LogEntry(level, msg, file) == [level |-> level, msg |-> msg, file |-> file]

\* fs.promises.rename(from, to): the file at 'to', if any, is replaced
RenameFs(from, to) ==
  [x \in (DOMAIN fs \ {from}) \cup {to} |-> IF x = to THEN fs[from] ELSE fs[x]]

\* AnalyzerFactory.createAnalyzer: config.aiProvider || 'gemini'
ProviderOf(cfg) == IF cfg.aiProvider = "" THEN "gemini" ELSE cfg.aiProvider

KnownProvider(cfg) == ProviderOf(cfg) \in Providers

\* What the constructor of the analyzer leaves initialized.  Gemini: this.model
\* is set only with an API key; the others configure from any config object.
Initialized(cfg) == IF ProviderOf(cfg) = "gemini" THEN cfg.geminiApiKey ELSE TRUE

\* A connection test that reports success whatever the backend answers
AlwaysConnected(cfg, reachable) == TRUE

\* analyzer.testConnection(): success when the backend is set up and
\* answers the test request
testConnection(cfg, reachable) == Initialized(cfg) /\ reachable

\* BatchSettings.defaultSettings
DefaultSettings ==
  [filenameFormat |-> "{description}", defaultPrefix |-> <<>>, separator |-> "_",
   processMode |-> "rename", copyDestination |-> DestDir, skipProcessed |-> TRUE,
   copyToClipboard |-> FALSE]

BatchSettingsOf(processMode, skipProcessed, clipboard) ==
  [DefaultSettings EXCEPT !.processMode = processMode, !.skipProcessed = skipProcessed,
                          !.copyToClipboard = clipboard]

\* config.validate(config): the zod schema accepts the configuration.  The
\* watch folder exists, the provider is one of the three kinds (gemini when
\* it is not set), and the gemini provider has an API key
Valid(cfg) ==
  /\ cfg.watchFolder \in dirs
  /\ ProviderOf(cfg) \in Providers
  /\ ProviderOf(cfg) = "gemini" => cfg.geminiApiKey

\* os.homedir()
HomeDir == "home"

SettingsFileName ==
  <<".","s","c","r","e","e","n","s","h","o","t","-","r","e","n","a","m","e","r","-","b","a","t","c","h","-","s","e","t","t","i","n","g","s",".","j","s","o","n">>

\* BatchSettings.settingsPath
SettingsPath == PathJoin(HomeDir, SettingsFileName)

\* fs.writeFileSync(path, data): the file is created unless it is there
WriteFs(path) ==
  [x \in DOMAIN fs \cup {path} |-> IF x \in DOMAIN fs THEN fs[x] ELSE 0]

\* os.tmpdir()
TmpDir == "tmp"

PidFileName ==
  <<"s","c","r","e","e","n","s","h","o","t","-","r","e","n","a","m","e","r",".","p","i","d">>

\* ScreenshotRenamer.pidFilePath
PidPath == PathJoin(TmpDir, PidFileName)

\* fs.unlinkSync(path) when the file is there
UnlinkFs(path) == [x \in DOMAIN fs \ {path} |-> fs[x]]

\* The service before start() is called, and once the watcher runs
\* (loaded is currentConfig of start())
IdleService ==
  [loaded |-> StartupConfig, validated |-> FALSE, reachable |-> FALSE,
   connected |-> FALSE, watching |-> FALSE]

RunningService ==
  [loaded |-> StartupConfig, validated |-> TRUE, reachable |-> TRUE,
   connected |-> TRUE, watching |-> TRUE]

\* What a run without files, edits and signals sees
NoBudget ==
  [files |-> 0, dups |-> 0, edit |-> StartupConfig, late |-> FALSE, signals |-> 0,
   stops |-> 0]

\* No single call is under way
NoCall == [op |-> "none"]

\* processFolder before it is called
IdleBatch ==
  [pc |-> "start", files |-> <<>>, idx |-> 0, since |-> 0, analysis |-> <<>>,
   failed |-> FALSE, finalName |-> <<>>, last |-> "", processed |-> 0, skipped |-> 0,
   errors |-> 0, results |-> <<>>,
   folder |-> WatchDir, preview |-> FALSE, before |-> {}, beforeDest |-> {},
   hadSettings |-> FALSE, validated |-> FALSE, reachable |-> FALSE, connected |-> FALSE,
   handled |-> <<>>, previewed |-> FALSE,
   totalFiles |-> 0, processableFiles |-> 0, skippedFiles |-> 0,
   published |-> <<>>, run |-> 1, answers |-> {}, firstRenamed |-> {}, firstFs |-> {},
   firstErrors |-> 0]

(***************************************************************************)
(* FolderWatcher.handleNewFile, one action per stretch between two awaits  *)
(***************************************************************************)
\* The state of an invocation right after it marked its path in-flight
\* No path: nothing was handed to the clipboard
NoPath == [name |-> <<>>, dir |-> ""]

NewInvocation(path, ext) ==
  [path |-> path, pc |-> "debounce", since |-> now, ext |-> ext, provider |-> "",
   initialized |-> FALSE, failed |-> FALSE, analysis |-> <<>>, stem |-> <<>>,
   dir |-> "", counter |-> 0, newName |-> <<>>, outcome |-> "", loaded |-> config,
   clipboard |-> FALSE, published |-> NoPath]

\* A handler without the finally block
NoFinally(path) == processingFiles

\* The finally block: this.processingFiles.delete(filePath)
Finally(path) == processingFiles \ {path}

\* A handler whose catch blocks throw the error on: the promise of
\* handleNewFile is rejected
Rethrown(outcome) ==
  IF outcome \in {"threw", "renamefail", "clipfail"} THEN "rejected" ELSE outcome

\* The catch blocks of handleNewFile (around the rename and the clipboard
\* copy, and around the whole body) log the error and fall through to the
\* end of the handler: the invocation ends the way it ended, and its
\* promise resolves
Caught(outcome) == outcome

\* An invocation returns: its record is closed and the finally block runs
Finish(i, outcome, fields) ==
  /\ inv' = [inv EXCEPT ![i] = [k \in DOMAIN inv[i] |->
                IF k = "pc" THEN "done"
                ELSE IF k = "outcome" THEN Caught(outcome)
                ELSE IF k \in DOMAIN fields THEN fields[k] ELSE inv[i][k]]]
  /\ processingFiles' = Finally(inv[i].path)

\* A return that first deletes the path itself (the vanished-file and the
\* no-result returns), and then runs the finally block
FinishEarly(i, outcome) ==
  /\ inv' = [inv EXCEPT ![i].pc = "done", ![i].outcome = outcome]
  /\ processingFiles' = Finally(inv[i].path) \ {inv[i].path}

NoFields == [k \in {} |-> <<>>]

\* The 'add' handler up to 'await this.delay(250)': extension filter,
\* already-processed check, in-flight guard, mark
HandleNewFile(p) ==
  /\ mode = "watch"
  /\ p \in events
  /\ events' = events \ {p}
  /\ LET ext == ToLowerCase(ExtName(p.name))
         fileName == BaseName(p.name, ext)
     IN IF ext \notin ImageExtensions
        THEN /\ log' = log \cup {LogEntry("debug", "Skipping non-image file", p.name)}
             /\ processingFiles' = Finally(p)
             /\ UNCHANGED inv
        ELSE IF LooksProcessed(fileName)
        THEN /\ log' = log \cup {LogEntry("info", "Skipping already processed file", p.name)}
             /\ processingFiles' = Finally(p)
             /\ UNCHANGED inv
        ELSE IF p \in processingFiles
        THEN /\ log' = log \cup {LogEntry("warn", "File is already being processed", p.name)}
             /\ processingFiles' = Finally(p)
             /\ UNCHANGED inv
        ELSE /\ Len(inv) < MaxInv
             /\ processingFiles' = processingFiles \cup {p}
             /\ inv' = Append(inv, NewInvocation(p, ext))
             /\ UNCHANGED log
  /\ UNCHANGED <<service, call, mode, fs, now, lost, config, diskConfig, budget, created, dups, renamedTo, dirs, settings, batch>>

\* After the debounce: existence check, reloadConfig, getAnalyzer, and the
\* call of analyzer.analyzeImage
AfterDebounce(i) ==
  /\ mode = "watch"
  /\ i \in DOMAIN inv
  /\ inv[i].pc = "debounce"
  /\ \E t \in LaterReadings(inv[i].since) : now' = t
  /\ IF ~Exists(inv[i].path)
     THEN /\ log' = log \cup {LogEntry("warn", "File no longer exists", inv[i].path.name)}
          /\ FinishEarly(i, "vanished")
          /\ UNCHANGED config
     ELSE /\ config' = diskConfig
          /\ IF ~KnownProvider(diskConfig)
             THEN /\ log' = log \cup {LogEntry("error", "Error processing file", inv[i].path.name)}
                  /\ Finish(i, "threw", [loaded |-> diskConfig])
             ELSE /\ log' = log \cup {LogEntry("info", "Starting AI analysis", inv[i].path.name)}
                  /\ inv' = [inv EXCEPT ![i].pc = "analyzing",
                                        ![i].loaded = diskConfig,
                                        ![i].provider = ProviderOf(diskConfig),
                                        ![i].initialized = Initialized(diskConfig)]
                  /\ UNCHANGED processingFiles
  /\ UNCHANGED <<service, call, mode, fs, lost, diskConfig, events, budget, created, dups, renamedTo, dirs, settings, batch>>

\* generateFileName up to its first await, and what follows when it returns
\* without one: the rename is issued unless the path would not change
StartRename(i, fields, newName) ==
  IF PathJoin(inv[i].path.dir, newName) = inv[i].path
  THEN /\ log' = log \cup {LogEntry("info", "Image analysis successful", inv[i].path.name),
                           LogEntry("warn", "Skipping rename, paths identical", inv[i].path.name)}
       /\ Finish(i, "same", fields)
  ELSE /\ log' = log \cup {LogEntry("info", "Image analysis successful", inv[i].path.name)}
       /\ inv' = [inv EXCEPT ![i] = [k \in DOMAIN inv[i] |->
                     IF k = "pc" THEN "renaming"
                     ELSE IF k = "newName" THEN newName
                     ELSE IF k \in DOMAIN fields THEN fields[k] ELSE inv[i][k]]]
       /\ UNCHANGED processingFiles

\* The analysis arrives: the no-result return, or generateFileName's
\* cleaning, its timestamp name, or the first existence check of its loop
AnalysisDone(i) ==
  /\ mode = "watch"
  /\ i \in DOMAIN inv
  /\ inv[i].pc = "analyzing"
  /\ \E outcome \in CallOutcomes, t \in ClockReadings :
       LET analysis == analyzeImage(inv[i].provider, inv[i].initialized,
                                    inv[i].path.name, outcome, t)
           failed == inv[i].initialized /\ IsFailure(outcome)
           fileName == CleanChain(analysis)
       IN /\ now' = t
          /\ IF Falsy(analysis)
             THEN /\ log' = log \cup {LogEntry("error", "Image analysis failed, no result returned",
                                               inv[i].path.name)}
                  /\ FinishEarly(i, "noresult")
             ELSE IF IsGenericName(fileName)
             THEN StartRename(i, [analysis |-> analysis, failed |-> failed, stem |-> fileName],
                              TimestampName(fileName, inv[i].ext, t))
             ELSE /\ log' = log \cup {LogEntry("info", "Image analysis successful", inv[i].path.name)}
                  /\ inv' = [inv EXCEPT ![i].pc = "access", ![i].analysis = analysis,
                                        ![i].failed = failed, ![i].stem = fileName,
                                        ![i].dir = config.watchFolder, ![i].counter = 1]
                  /\ UNCHANGED processingFiles
  /\ UNCHANGED <<service, call, mode, fs, lost, config, diskConfig, events, budget, created, dups, renamedTo, dirs, settings, batch>>

\* One fs.promises.access of the conflict loop returns: the next candidate
\* is tried, or the loop ends and the rename is issued
AccessDone(i) ==
  /\ mode = "watch"
  /\ i \in DOMAIN inv
  /\ inv[i].pc = "access"
  /\ LET candidate == Candidate(inv[i].stem, inv[i].ext, inv[i].counter)
     IN IF Exists(PathJoin(inv[i].dir, candidate))
        THEN /\ inv' = [inv EXCEPT ![i].counter = inv[i].counter + 1]
             /\ log' = log \cup {LogEntry("warn", "File conflict found", candidate)}
             /\ UNCHANGED processingFiles
        ELSE StartRename(i, NoFields, candidate)
  /\ UNCHANGED <<service, call, mode, fs, now, lost, config, diskConfig, events, budget, created, dups, renamedTo, dirs, settings, batch>>

\* fs.promises.rename returns; on success the clipboard copy follows, and
\* the catch block around both logs whatever either of them throws
RenameDone(i) ==
  /\ mode = "watch"
  /\ i \in DOMAIN inv
  /\ inv[i].pc = "renaming"
  /\ LET from == inv[i].path
         to == PathJoin(inv[i].path.dir, inv[i].newName)
     IN \E ioError \in BOOLEAN, env \in RunClipEnvs :
          IF ioError \/ ~Exists(from)
          THEN /\ log' = log \cup {LogEntry("error", "Error renaming file", from.name)}
               /\ Finish(i, "renamefail", NoFields)
               /\ UNCHANGED <<fs, lost, events, renamedTo>>
          ELSE /\ fs' = RenameFs(from, to)
               /\ lost' = IF Exists(to) THEN lost \cup {fs[to]} ELSE lost
               /\ events' = events \cup {to}
               /\ renamedTo' = renamedTo \cup {to}
               /\ IF ~config.copyToClipboard
                  THEN /\ log' = log \cup {LogEntry("info", "File renamed successfully", from.name)}
                       /\ Finish(i, "renamed", [clipboard |-> config.copyToClipboard])
                  ELSE IF copyImageToClipboard(TRUE, env).result = "true"
                  THEN /\ log' = log \cup {LogEntry("info", "File renamed successfully", from.name),
                                           LogEntry("info", "Image copied to clipboard", from.name)}
                       /\ Finish(i, "copied", [clipboard |-> config.copyToClipboard, published |-> to])
                  ELSE /\ log' = log \cup {LogEntry("info", "File renamed successfully", from.name),
                                           LogEntry("error", "Error renaming file", from.name)}
                       /\ Finish(i, "clipfail", [clipboard |-> config.copyToClipboard, published |-> to])
  /\ UNCHANGED <<service, call, mode, now, config, diskConfig, budget, created, dups, dirs, settings, batch>>

(***************************************************************************)
(* The environment of the watcher                                          *)
(***************************************************************************)
\* A new file appears in the watched folder; chokidar emits 'add'
ExternalCreate(name) ==
  /\ mode = "watch"
  /\ created < budget.files
  /\ budget.late \/ diskConfig = budget.edit
  /\ ~Exists(PathJoin(WatchDir, name))
  /\ fs' = [x \in DOMAIN fs \cup {PathJoin(WatchDir, name)} |->
              IF x = PathJoin(WatchDir, name) THEN created + 1 ELSE fs[x]]
  /\ events' = events \cup {PathJoin(WatchDir, name)}
  /\ created' = created + 1
  /\ UNCHANGED <<service, call, mode, now, log, lost, config, diskConfig, processingFiles, inv, budget, dups,
                 renamedTo, dirs, settings, batch>>

\* chokidar emits another 'add' for a path while a handler is at work on it
DuplicateAdd(p) ==
  /\ mode = "watch"
  /\ dups < budget.dups
  /\ Exists(p)
  /\ \E i \in DOMAIN inv : inv[i].path = p /\ inv[i].pc # "done"
  /\ p \notin events
  /\ events' = events \cup {p}
  /\ dups' = dups + 1
  /\ UNCHANGED <<service, call, mode, fs, now, log, lost, config, diskConfig, processingFiles, inv, budget,
                 created, renamedTo, dirs, settings, batch>>

\* The configuration file is edited while the service runs
ConfigEdited ==
  /\ mode = "watch"
  /\ diskConfig # budget.edit
  /\ budget.late \/ created = 0
  /\ diskConfig' = budget.edit
  /\ UNCHANGED <<service, call, mode, fs, now, log, lost, config, events, processingFiles, inv,
                 budget, created, dups, renamedTo, dirs, settings, batch>>

\* SIGUSR1: this.watcher.reloadConfig()
ReloadSignal ==
  /\ mode = "watch"
  /\ budget.signals > 0
  /\ config' = diskConfig
  /\ budget' = [budget EXCEPT !.signals = budget.signals - 1]
  /\ UNCHANGED <<service, call, mode, fs, now, log, lost, diskConfig, events, processingFiles,
                 inv, created, dups, renamedTo, dirs, settings, batch>>

\* ScreenshotRenamer.start up to 'await analyzer.testConnection()':
\* config.load(), config.validate, process.exit(1) on errors, getAnalyzer
ServiceStart ==
  /\ mode = "starting"
  /\ IF Valid(diskConfig)
     THEN /\ mode' = "connecting"
          /\ service' = [service EXCEPT !.loaded = diskConfig, !.validated = TRUE]
          /\ UNCHANGED log
     ELSE /\ mode' = "refused"
          /\ log' = log \cup {LogEntry("error",
                                 "Service failed to start due to configuration errors", <<>>)}
          /\ service' = [service EXCEPT !.loaded = diskConfig]
  /\ UNCHANGED <<call, fs, now, lost, config, diskConfig, events, processingFiles, inv,
                 budget, created, dups, renamedTo, dirs, settings, batch>>

\* testConnection returns: process.exit(1) on failure; else the clipboard
\* test (which only logs), createPidFile, and FolderWatcher.start, which
\* reloads the configuration and watches the folder if it exists
ServiceConnected ==
  /\ mode = "connecting"
  /\ \E reachable \in BOOLEAN :
       IF testConnection(diskConfig, reachable)
       THEN /\ fs' = WriteFs(PidPath)
            /\ config' = diskConfig
            /\ IF diskConfig.watchFolder \in dirs
               THEN /\ mode' = "watch"
                    /\ service' = [service EXCEPT !.reachable = reachable,
                                                  !.connected = TRUE, !.watching = TRUE]
                    /\ UNCHANGED log
               ELSE /\ mode' = "idle"
                    /\ service' = [service EXCEPT !.reachable = reachable,
                                                  !.connected = TRUE]
                    /\ log' = log \cup {LogEntry("error",
                                           "Watch folder is invalid or not configured", <<>>)}
       ELSE /\ mode' = "refused"
            /\ log' = log \cup {LogEntry("error", "connection_test", <<>>)}
            /\ service' = [service EXCEPT !.reachable = reachable]
            /\ UNCHANGED <<fs, config>>
  /\ UNCHANGED <<call, now, lost, diskConfig, events, processingFiles, inv,
                 budget, created, dups, renamedTo, dirs, settings, batch>>

\* SIGINT or SIGTERM: ScreenshotRenamer.stop closes the watcher, removes
\* the PID file and calls process.exit(0)
Stop ==
  /\ mode = "watch"
  /\ budget.stops > 0
  /\ mode' = "exited"
  /\ service' = [service EXCEPT !.watching = FALSE]
  /\ fs' = UnlinkFs(PidPath)
  /\ budget' = [budget EXCEPT !.stops = budget.stops - 1]
  /\ UNCHANGED <<call, now, log, lost, config, diskConfig, events, processingFiles, inv,
                 created, dups, renamedTo, dirs, settings, batch>>

WatcherNext ==
  \/ ServiceStart
  \/ ServiceConnected
  \/ ConfigEdited
  \/ ReloadSignal
  \/ Stop
  \/ \E p \in events : HandleNewFile(p)
  \/ \E i \in DOMAIN inv : AfterDebounce(i)
  \/ \E i \in DOMAIN inv : AnalysisDone(i)
  \/ \E i \in DOMAIN inv : AccessDone(i)
  \/ \E i \in DOMAIN inv : RenameDone(i)
  \/ \E name \in NewFileNames : ExternalCreate(name)
  \/ \E p \in DOMAIN fs : DuplicateAdd(p)

WatcherInit ==
  /\ mode = "starting"
  /\ fs = [x \in {PathJoin(WatchDir, LoginScreenFile)} |-> 0]
  /\ now = 0
  /\ log = {}
  /\ lost = {}
  /\ \E run \in WatcherRuns :
       /\ diskConfig = run.start
       /\ budget = [files |-> run.files, dups |-> run.dups, edit |-> run.config,
                    late |-> run.late, signals |-> run.signals, stops |-> run.stops]
  /\ config = diskConfig
  /\ service = IdleService
  /\ events = {}
  /\ processingFiles = {}
  /\ inv = <<>>
  /\ created = 0
  /\ dups = 0
  /\ renamedTo = {}
  /\ dirs = {WatchDir}
  /\ settings = DefaultSettings
  /\ batch = IdleBatch
  /\ call = NoCall


(***************************************************************************)
(* BatchRenamer.processFolder (apply), one action per stretch of the loop  *)
(***************************************************************************)
\* The order of JavaScript's default sort on the characters file names use
CharOrder ==
  <<" ", "-", ".">> \o DigitChars \o UpperChars \o <<"_">> \o LowerChars

CharRank(c) == CHOOSE i \in 1..Len(CharOrder) : CharOrder[i] = c

\* a < b as strings
RECURSIVE StrLess(_, _)
StrLess(a, b) ==
  IF a = <<>> THEN b # <<>>
  ELSE IF b = <<>> THEN FALSE
  ELSE IF Head(a) = Head(b) THEN StrLess(Tail(a), Tail(b))
  ELSE CharRank(Head(a)) < CharRank(Head(b))

\* The names in the reverse of their order
RECURSIVE ReverseSortNames(_)
ReverseSortNames(names) ==
  IF names = {} THEN <<>>
  ELSE LET last == CHOOSE x \in names : \A y \in names \ {x} : StrLess(y, x)
       IN <<last>> \o ReverseSortNames(names \ {last})

\* Array.prototype.sort() of a set of names
RECURSIVE SortNames(_)
SortNames(names) ==
  IF names = {} THEN <<>>
  ELSE LET least == CHOOSE x \in names : \A y \in names \ {x} : StrLess(x, y)
       IN <<least>> \o SortNames(names \ {least})

\* batchSettings.fileTypes.map(type => `.${type}`): the default file types
AllowedExtensions == ImageExtensions

\* BatchRenamer.getImageFiles(folderPath, fileTypes): the sorted image paths
getImageFiles(dir) ==
  LET names == {n \in NamesIn(dir) : ToLowerCase(ExtName(n)) \in AllowedExtensions}
      sorted == SortNames(names)
  IN [i \in 1..Len(sorted) |-> PathJoin(dir, sorted[i])]

\* A copy that does not leave the source behind
MoveFs(from, to, id) ==
  [x \in (DOMAIN fs \ {from}) \cup {to} |-> IF x = to THEN id ELSE fs[x]]

\* fs.promises.copyFile(from, to): the file at 'to', if any, is replaced
CopyFs(from, to, id) ==
  [x \in DOMAIN fs \cup {to} |-> IF x = to THEN id ELSE fs[x]]

\* A run that copies every file it handled to the clipboard
AlwaysPublish(batchSettings) == TRUE

\* if (batchSettings.copyToClipboard && batchSettings.processMode !== 'copy')
ShouldPublish(batchSettings) ==
  batchSettings.copyToClipboard /\ batchSettings.processMode # "copy"

\* One file of the listing is through: what became of it
Handled(b, filePath, last) ==
  [b EXCEPT !.idx = b.idx + 1, !.last = last,
            !.handled = Append(b.handled, [file |-> filePath, outcome |-> last])]

\* The first failure ends the run
AbortRun(b, filePath, last) ==
  [Handled(b, filePath, last) EXCEPT !.pc = "failed", !.errors = b.errors + 1]

\* A loop that goes on after a failure without counting it
UncountedError(b, filePath, last) ==
  [Handled(b, filePath, last) EXCEPT !.pc = "loop"]

\* results.errors++ and 'continue', or the end of a catch block of the loop
\* body: the loop goes on with the next file
ContinueAfterError(b, filePath, last) ==
  [Handled(b, filePath, last) EXCEPT !.pc = "loop", !.errors = b.errors + 1]

\* processFolder up to the loop: the settings file is written with the
\* folder as lastUsedFolder (save() catches a failing write), the
\* configuration is validated, the preview branches off, then the listing,
\* getAnalyzer and testConnection.  The settings file is no image, so the
\* listing is the same before and after the write.
BatchStart ==
  /\ mode = "batch"
  /\ batch.pc = "start"
  /\ \E written \in BOOLEAN : fs' = IF written THEN WriteFs(SettingsPath) ELSE fs
  /\ LET called == [batch EXCEPT !.before = NamesIn(batch.folder),
                                 !.beforeDest = NamesIn(settings.copyDestination),
                                 !.hadSettings = Exists(SettingsPath)]
         files == getImageFiles(batch.folder)
     IN IF ~Valid(config)
        THEN batch' = [called EXCEPT !.pc = "failed"]
        ELSE IF batch.preview \/ settings.processMode = "preview"
        THEN batch' = [called EXCEPT !.pc = "preview", !.validated = TRUE]
        ELSE IF files = <<>>
        THEN batch' = [called EXCEPT !.pc = "done", !.validated = TRUE]
        ELSE IF ~KnownProvider(config)
        THEN batch' = [called EXCEPT !.pc = "failed", !.validated = TRUE]
        ELSE \E reachable \in BOOLEAN :
               IF testConnection(config, reachable)
               THEN batch' = [called EXCEPT !.pc = "loop", !.files = files, !.idx = 1,
                                            !.validated = TRUE, !.reachable = reachable,
                                            !.connected = TRUE]
               ELSE batch' = [called EXCEPT !.pc = "failed", !.files = files,
                                            !.validated = TRUE, !.reachable = reachable]
  /\ UNCHANGED <<service, call, mode, now, log, lost, config, diskConfig, events, processingFiles, inv,
                 budget, created, dups, renamedTo, dirs, settings>>

\* BatchPreviewer.isAlreadyProcessed(fileName)
isAlreadyProcessed(fileName) == MatchesProcessedPattern(fileName)

\* The length generateMockAnalysis cuts a name it derives from the file name to
MockNameLen == 30

\* s.replace(/[^a-z0-9\s]/g, ' ')
OthersToSpace(s) ==
  [i \in 1..Len(s) |-> IF IsLower(s[i]) \/ IsDigit(s[i]) \/ IsSpace(s[i]) THEN s[i] ELSE " "]

\* BatchPreviewer.generateMockAnalysis(fileName)
generateMockAnalysis(fileName) ==
  LET lowerName == ToLowerCase(fileName)
      baseName == BaseName(fileName, ExtName(fileName))
      derived == Substring0(TrimSep(SpacesTo(OthersToSpace(ToLowerCase(baseName)), "_"), "_"),
                            MockNameLen)
  IN CASE Includes(lowerName, ScreenshotWord) ->
            <<"a","p","p","l","i","c","a","t","i","o","n","_","s","c","r","e","e","n",
              "s","h","o","t","_","i","n","t","e","r","f","a","c","e">>
       [] Includes(lowerName, <<"l","o","g","i","n">>) ->
            <<"u","s","e","r","_","l","o","g","i","n","_","f","o","r","m">>
       [] Includes(lowerName, <<"d","a","s","h","b","o","a","r","d">>) ->
            <<"a","d","m","i","n","_","d","a","s","h","b","o","a","r","d","_","v","i","e","w">>
       [] Includes(lowerName, <<"p","r","o","f","i","l","e">>) ->
            <<"u","s","e","r","_","p","r","o","f","i","l","e","_","p","a","g","e">>
       [] Includes(lowerName, <<"s","e","t","t","i","n","g","s">>) ->
            <<"a","p","p","l","i","c","a","t","i","o","n","_","s","e","t","t","i","n","g","s",
              "_","m","e","n","u">>
       [] Includes(lowerName, <<"i","m","g","_">>) \/ Includes(lowerName, ImageWord) ->
            <<"g","e","n","e","r","i","c","_","i","m","a","g","e","_","c","o","n","t","e","n","t">>
       [] OTHER ->
            IF derived = <<>>
            THEN <<"u","n","k","n","o","w","n","_","c","o","n","t","e","n","t">>
            ELSE derived

\* One entry of the changes list of generatePreview: the skip check, the
\* mock analysis, generateFilename and findUniqueFilename in the directory
\* as it is
PreviewChange(filePath, batchSettings, t) ==
  LET fileName == filePath.name
      ext == ExtName(fileName)
      fileNameWithoutExt == BaseName(fileName, ext)
      newFileName == generateFilename(generateMockAnalysis(fileName), ext, batchSettings, t)
      dir == IF batchSettings.processMode = "copy"
             THEN batchSettings.copyDestination ELSE filePath.dir
      finalFileName == findUniqueFilename(newFileName, NamesIn(dir))
  IN IF batchSettings.skipProcessed /\ isAlreadyProcessed(fileNameWithoutExt)
     THEN [originalPath |-> filePath, newName |-> fileName, newPath |-> filePath,
           status |-> "skipped"]
     ELSE [originalPath |-> filePath, newName |-> finalFileName,
           newPath |-> PathJoin(dir, finalFileName),
           status |-> IF fileName = finalFileName THEN "no_change" ELSE "rename"]

\* BatchPreviewer.generatePreview(folderPath, true)
generatePreview(imageFiles, batchSettings, t) ==
  LET changes == [i \in 1..Len(imageFiles) |-> PreviewChange(imageFiles[i], batchSettings, t)]
      skippedFiles == Cardinality({i \in 1..Len(changes) : changes[i].status = "skipped"})
  IN [totalFiles |-> Len(imageFiles),
      processableFiles |-> Len(imageFiles) - skippedFiles,
      skippedFiles |-> skippedFiles,
      changes |-> changes]

\* previewOnly: BatchPreviewer.generatePreview lists the folder and counts
\* the files it would skip and the files it would name; nothing is written
BatchPreview ==
  /\ mode = "batch"
  /\ batch.pc = "preview"
  /\ LET preview == generatePreview(getImageFiles(batch.folder), settings, now)
     IN batch' = [batch EXCEPT !.pc = "done", !.previewed = TRUE,
                               !.totalFiles = preview.totalFiles,
                               !.processableFiles = preview.processableFiles,
                               !.skippedFiles = preview.skippedFiles]
  /\ UNCHANGED <<service, call, mode, fs, now, log, lost, config, diskConfig, events, processingFiles, inv,
                 budget, created, dups, renamedTo, dirs, settings>>

\* The head of the loop for one file: the skip check, then delay(500) and
\* the call of analyzer.analyzeImage
BatchNextFile ==
  /\ mode = "batch"
  /\ batch.pc = "loop"
  /\ batch.idx <= Len(batch.files)
  /\ LET filePath == batch.files[batch.idx]
         ext == ToLowerCase(ExtName(filePath.name))
         fileNameWithoutExt == BaseName(filePath.name, ext)
     IN IF settings.skipProcessed /\ isAiProcessedFile(fileNameWithoutExt)
        THEN batch' = [Handled(batch, filePath, "skipped") EXCEPT
                         !.skipped = batch.skipped + 1, !.failed = FALSE]
        ELSE batch' = [batch EXCEPT !.pc = "analyzing", !.since = now, !.last = "",
                                    !.failed = FALSE]
  /\ UNCHANGED <<service, call, mode, fs, now, log, lost, config, diskConfig, events, processingFiles, inv,
                 budget, created, dups, renamedTo, dirs, settings>>

\* The directory the final name is resolved in and the path it gives
BatchTargetDir(filePath) ==
  IF settings.processMode = "copy" THEN settings.copyDestination ELSE filePath.dir

\* The analysis arrives: the error paths, or generateFilename and
\* findUniqueFilename, and the rename or copy is issued unless the path
\* would not change
BatchAnalysisDone ==
  /\ mode = "batch"
  /\ batch.pc = "analyzing"
  /\ \E outcome \in CallOutcomes, t \in LaterReadings(batch.since) :
       LET filePath == batch.files[batch.idx]
           image == IF Exists(filePath) THEN fs[filePath] ELSE 0
           known == {a \in batch.answers : a[1] = image}
           answers == batch.answers \cup {<<image, outcome>>}
           ext == ToLowerCase(ExtName(filePath.name))
           analysis == analyzeImage(ProviderOf(config), Initialized(config),
                                    filePath.name, outcome, t)
           failed == IsFailure(outcome)
           newFileName == generateFilename(analysis, ext, settings, t)
           finalFileName == findUniqueFilename(newFileName, NamesIn(BatchTargetDir(filePath)))
           newFilePath == PathJoin(BatchTargetDir(filePath), finalFileName)
       IN /\ now' = t
          /\ known # {} => <<image, outcome>> \in known
          /\ IF Falsy(analysis) \/ isGenericFallback(analysis)
             THEN /\ log' = log \cup {LogEntry("error", "Image analysis failed, no meaningful result",
                                               filePath.name)}
                  /\ batch' = [ContinueAfterError(batch, filePath, "analysis-error") EXCEPT
                                  !.analysis = analysis, !.failed = failed,
                                  !.answers = answers]
             ELSE IF filePath # newFilePath
             THEN /\ log' = log \cup {LogEntry("info", "Image analysis successful", filePath.name)}
                  /\ batch' = [batch EXCEPT !.pc = "operating", !.analysis = analysis,
                                            !.failed = failed, !.finalName = finalFileName,
                                            !.answers = answers]
             ELSE /\ log' = log \cup {LogEntry("info", "Image analysis successful", filePath.name)}
                  /\ batch' = [Handled(batch, filePath, "no-change") EXCEPT
                                  !.pc = "loop", !.analysis = analysis, !.failed = failed,
                                  !.skipped = batch.skipped + 1, !.answers = answers]
  /\ UNCHANGED <<service, call, mode, fs, lost, config, diskConfig, events, processingFiles, inv,
                 budget, created, dups, renamedTo, dirs, settings>>

\* The rename or copy returns; in rename mode the clipboard copy follows,
\* inside a try block of its own
BatchOperationDone ==
  /\ mode = "batch"
  /\ batch.pc = "operating"
  /\ LET filePath == batch.files[batch.idx]
         newFilePath == PathJoin(BatchTargetDir(filePath), batch.finalName)
         result == [originalName |-> filePath.name, newName |-> batch.finalName,
                    mode |-> settings.processMode]
     IN \E ioError \in BOOLEAN, env \in RunClipEnvs :
          IF ioError \/ ~Exists(filePath)
          THEN /\ log' = log \cup {LogEntry("error",
                                     IF settings.processMode = "copy" THEN "Error copying file"
                                     ELSE "Error renaming file", filePath.name)}
               /\ batch' = ContinueAfterError(batch, filePath, "operation-error")
               /\ dirs' = IF settings.processMode = "copy"
                          THEN dirs \cup {newFilePath.dir} ELSE dirs
               /\ UNCHANGED <<fs, lost>>
          ELSE /\ fs' = IF settings.processMode = "copy"
                        THEN CopyFs(filePath, newFilePath, fs[filePath])
                        ELSE RenameFs(filePath, newFilePath)
               /\ dirs' = IF settings.processMode = "copy"
                          THEN dirs \cup {newFilePath.dir} ELSE dirs
               /\ lost' = IF Exists(newFilePath) THEN lost \cup {fs[newFilePath]} ELSE lost
               /\ batch' = [Handled(batch, filePath,
                                     IF /\ ShouldPublish(settings)
                                        /\ copyImageToClipboard(TRUE, env).result # "true"
                                     THEN "processed-clipfail" ELSE "processed") EXCEPT
                               !.pc = "loop", !.processed = batch.processed + 1,
                               !.results = Append(batch.results, result),
                               !.published = IF ShouldPublish(settings)
                                             THEN Append(batch.published, newFilePath)
                                             ELSE batch.published]
               /\ IF ShouldPublish(settings)
                  THEN IF copyImageToClipboard(TRUE, env).result = "true"
                       THEN log' = log \cup {LogEntry("info", "File renamed", filePath.name),
                                             LogEntry("info", "Image copied to clipboard",
                                                      filePath.name)}
                       ELSE log' = log \cup {LogEntry("info", "File renamed", filePath.name),
                                             LogEntry("warn", "Clipboard copy failed",
                                                      filePath.name)}
                  ELSE log' = log \cup {LogEntry("info",
                                          IF settings.processMode = "copy" THEN "File copied"
                                          ELSE "File renamed", filePath.name)}
  /\ UNCHANGED <<service, call, mode, now, config, diskConfig, events, processingFiles, inv,
                 budget, created, dups, renamedTo, settings>>

\* The loop is through: the summary is printed
BatchFinish ==
  /\ mode = "batch"
  /\ batch.pc = "loop"
  /\ batch.idx > Len(batch.files)
  /\ batch' = [batch EXCEPT !.pc = "done"]
  /\ UNCHANGED <<service, call, mode, fs, now, log, lost, config, diskConfig, events, processingFiles, inv,
                 budget, created, dups, renamedTo, dirs, settings>>

\* Bound: the runs of the batch command over one folder
MaxRuns == 2

\* The batch command is run again over the same folder once a run is
\* through: a new process with a new BatchRenamer, on the files the former
\* run left.  The analyzer answers for an image what it answered before.
BatchRerun ==
  /\ mode = "batch"
  /\ batch.pc = "done"
  /\ ~batch.preview
  /\ batch.run < MaxRuns
  /\ batch' = [IdleBatch EXCEPT
                 !.folder = batch.folder, !.preview = batch.preview,
                 !.run = batch.run + 1, !.answers = batch.answers,
                 !.firstRenamed =
                   {PathJoin(batch.folder, batch.results[k].newName) :
                      k \in {j \in 1..Len(batch.results) : batch.results[j].mode = "rename"}},
                 !.firstFs = {<<x, fs[x]>> : x \in DOMAIN fs},
                 !.firstErrors = batch.errors]
  /\ UNCHANGED <<service, call, mode, fs, now, log, lost, config, diskConfig, events, processingFiles, inv,
                 budget, created, dups, renamedTo, dirs, settings>>

BatchNext ==
  \/ BatchStart
  \/ BatchPreview
  \/ BatchNextFile
  \/ BatchAnalysisDone
  \/ BatchOperationDone
  \/ BatchFinish
  \/ BatchRerun

\* A file a former run named
ProcessedFile ==
  <<"u","s","e","r","_","l","o","g","i","n","_","f","o","r","m",".","p","n","g">>

\* The folder a batch run is pointed at
BatchFolder == {ScreenshotFile, UpperExtFile, ProcessedFile, TextFile}

\* The batch runs the model explores: a configuration, the settings, the
\* folder and the preview option
BatchRun(cfg, batchSettings, folder, preview) ==
  [config |-> cfg, settings |-> batchSettings, folder |-> folder, preview |-> preview]

BatchRuns ==
  { BatchRun(Config("gemini", TRUE, FALSE), BatchSettingsOf("rename", TRUE, TRUE),
             WatchDir, FALSE),
    BatchRun(Config("ollama", FALSE, FALSE), BatchSettingsOf("rename", FALSE, FALSE),
             WatchDir, FALSE),
    BatchRun(Config("ollama", FALSE, FALSE), BatchSettingsOf("copy", TRUE, TRUE),
             WatchDir, FALSE),
    BatchRun(Config("gemini", FALSE, FALSE), BatchSettingsOf("rename", TRUE, FALSE),
             WatchDir, FALSE),
    BatchRun(Config("gemini", TRUE, FALSE), BatchSettingsOf("rename", TRUE, FALSE),
             HomeDir, TRUE),
    BatchRun(Config("ollama", FALSE, FALSE), BatchSettingsOf("preview", TRUE, FALSE),
             WatchDir, FALSE) }

\* The image of a file that is in the copy destination before the run
DestImage == Cardinality(BatchFolder) + 1

\* The folder holds the files; the settings file of an earlier run may be
\* in the home directory, and the destination of a copy run may exist and
\* hold a file under a name the run will come up with
BatchInit ==
  /\ mode = "batch"
  /\ now = 0
  /\ log = {}
  /\ lost = {}
  /\ \E run \in BatchRuns, settingsExist \in BOOLEAN, destTaken \in BOOLEAN :
       /\ destTaken => run.settings.processMode = "copy"
       /\ diskConfig = run.config
       /\ settings = run.settings
       /\ batch = [IdleBatch EXCEPT !.folder = run.folder, !.preview = run.preview]
       /\ fs = [x \in {PathJoin(run.folder, n) : n \in BatchFolder}
                        \cup (IF settingsExist THEN {SettingsPath} ELSE {})
                        \cup (IF destTaken THEN {PathJoin(DestDir, LoginScreenFile)} ELSE {}) |->
                  IF x = SettingsPath THEN 0
                  ELSE IF x.dir = DestDir THEN DestImage
                  ELSE CHOOSE k \in 1..Cardinality(BatchFolder) :
                         SortNames(BatchFolder)[k] = x.name]
       /\ dirs = {WatchDir, HomeDir} \cup (IF destTaken THEN {DestDir} ELSE {})
  /\ config = diskConfig
  /\ events = {}
  /\ processingFiles = {}
  /\ inv = <<>>
  /\ budget = NoBudget
  /\ created = 0
  /\ dups = 0
  /\ renamedTo = {}
  /\ call = NoCall
  /\ service = IdleService

(***************************************************************************)
(* The program: the service (index.js) or a batch run (batch-renamer.js)   *)
(***************************************************************************)
Init == WatcherInit \/ BatchInit

Next == WatcherNext \/ BatchNext

Spec == Init /\ [][Next]_vars

(***************************************************************************)
(* Single calls: one operation applied once to arguments drawn from its    *)
(* domain, with nothing else running                                       *)
(***************************************************************************)
\* The rest of the program stands still
NothingElseRuns ==
  /\ now = 0
  /\ log = {}
  /\ lost = {}
  /\ diskConfig = config
  /\ events = {}
  /\ budget = NoBudget
  /\ created = 0
  /\ dups = 0
  /\ renamedTo = {}
  /\ dirs = {WatchDir}
  /\ settings = DefaultSettings
  /\ batch = IdleBatch
  /\ service = IF mode = "watch" THEN RunningService ELSE IdleService

\* clipboardManager.copyImageToClipboard(imagePath) on every platform state
ClipInit ==
  /\ mode = "call"
  /\ fs = [x \in {PathJoin(WatchDir, LoginScreenFile)} |-> 0]
  /\ config = Config("gemini", TRUE, TRUE)
  /\ processingFiles = {}
  /\ inv = <<>>
  /\ \E fileExists \in BOOLEAN, env \in ClipEnvs :
       call = [op |-> "copyImageToClipboard", fileExists |-> fileExists, env |-> env,
               done |-> FALSE, result |-> [result |-> "", error |-> "", tried |-> <<>>]]
  /\ NothingElseRuns

CopyImageToClipboardCall ==
  /\ call.op = "copyImageToClipboard"
  /\ ~call.done
  /\ call' = [call EXCEPT !.done = TRUE,
                          !.result = copyImageToClipboard(call.fileExists, call.env)]
  /\ UNCHANGED <<service, mode, fs, now, log, lost, config, diskConfig, events, processingFiles, inv,
                 budget, created, dups, renamedTo, dirs, settings, batch>>

SpecClip == ClipInit /\ [][CopyImageToClipboardCall]_vars

\* Every way an inference call can end
AllOutcomes ==
  {TextOutcome(x) : x \in AnswerTexts} \cup {FailOutcome(f) : f \in CallFailures}

\* analyzer.analyzeImage(imagePath) of the analyzer the factory builds from
\* a configuration, for every way the inference call can end
AnalyzeInit ==
  /\ mode = "call"
  /\ fs = [x \in {PathJoin(WatchDir, ScreenshotFile)} |-> 0]
  /\ \E provider \in Providers, key \in BOOLEAN : config = Config(provider, key, FALSE)
  /\ processingFiles = {}
  /\ inv = <<>>
  /\ \E imageName \in {ScreenshotFile, UpperExtFile}, outcome \in AllOutcomes :
       call = [op |-> "analyzeImage", imageName |-> imageName, outcome |-> outcome,
               done |-> FALSE, result |-> <<>>, requests |-> 0]
  /\ NothingElseRuns

AnalyzeImageCall ==
  /\ call.op = "analyzeImage"
  /\ ~call.done
  /\ \E t \in ClockReadings :
       /\ now' = t
       /\ call' = [call EXCEPT !.done = TRUE,
                               !.requests = InferenceRequests(ProviderOf(config),
                                                              Initialized(config)),
                               !.result = analyzeImage(ProviderOf(config), Initialized(config),
                                                       call.imageName, call.outcome, t)]
  /\ UNCHANGED <<service, mode, fs, log, lost, config, diskConfig, events, processingFiles, inv,
                 budget, created, dups, renamedTo, dirs, settings, batch>>

SpecAnalyze == AnalyzeInit /\ [][AnalyzeImageCall]_vars

\* Bound: the largest conflict suffix a name in the directory carries
MaxSuffix == 3

LoginScreenStem == <<"l","o","g","i","n","_","s","c","r","e","e","n">>

MenuStem == <<"m","e","n","u">>

ResolveStems == {LoginScreenStem, MenuStem}

\* The names a directory may hold before a name is resolved in it
TakenNames == {Candidate(stem, PngExt, k) : stem \in ResolveStems, k \in 1..MaxSuffix}

\* Conflict resolution in a directory nobody else writes to: the loop of
\* FolderWatcher.generateFileName for an invocation whose analysis has been
\* cleaned, or one call of BatchSettings.findUniqueFilename
ResolveInit ==
  /\ mode = "watch"
  /\ config = Config("ollama", FALSE, FALSE)
  /\ NothingElseRuns
  /\ \E taken \in SUBSET TakenNames :
       fs = [x \in {PathJoin(WatchDir, n) : n \in taken \cup {ScreenshotFile}} |-> 0]
  /\ \E stem \in ResolveStems :
       \/ /\ inv = <<[NewInvocation(PathJoin(WatchDir, ScreenshotFile), PngExt)
                       EXCEPT !.pc = "access", !.provider = "ollama", !.initialized = TRUE,
                              !.analysis = stem, !.stem = stem, !.dir = WatchDir,
                              !.counter = 1]>>
          /\ processingFiles = {PathJoin(WatchDir, ScreenshotFile)}
          /\ call = NoCall
       \/ /\ inv = <<>>
          /\ processingFiles = {}
          /\ call = [op |-> "findUniqueFilename", baseFilename |-> stem \o PngExt,
                     directory |-> WatchDir, done |-> FALSE, result |-> <<>>]

FindUniqueFilenameCall ==
  /\ call.op = "findUniqueFilename"
  /\ ~call.done
  /\ call' = [call EXCEPT !.done = TRUE,
                          !.result = findUniqueFilename(call.baseFilename,
                                                        NamesIn(call.directory))]
  /\ UNCHANGED <<service, mode, fs, now, log, lost, config, diskConfig, events, processingFiles, inv,
                 budget, created, dups, renamedTo, dirs, settings, batch>>

ResolveNext ==
  \/ \E i \in DOMAIN inv : AccessDone(i)
  \/ FindUniqueFilenameCall

SpecResolve == ResolveInit /\ [][ResolveNext]_vars

\* Bound: the number of parts of the stems the classifiers are applied to
MaxStemParts == 3

LoginWord == <<"l","o","g","i","n">>

ScreenWord == <<"s","c","r","e","e","n">>

\* The parts stems are built from: generic terms, descriptive words, a
\* number, a 13-digit timestamp, a short word and an upper-case word
StemWords ==
  {ImageWord, ScreenshotWord, LoginWord, ScreenWord, <<"1","2">>, DateNow(0),
   <<"a","b">>, <<"I","M","G">>}

RECURSIVE JoinParts(_)
JoinParts(parts) ==
  IF Len(parts) = 1 THEN parts[1]
  ELSE parts[1] \o <<"_">> \o JoinParts(Tail(parts))

LoginScreenErrorMessage ==
  JoinParts(<<LoginWord, ScreenWord, <<"e","r","r","o","r">>,
              <<"m","e","s","s","a","g","e">>>>)

\* The stems of the files a folder may hold
Stems ==
  {JoinParts(parts) : parts \in UNION {[1..n -> StemWords] : n \in 1..MaxStemParts}}
    \cup {LoginScreenErrorMessage}

\* The already-processed checks of the batch run, of the watcher and of the
\* batch preview applied to the stem of one file
ClassifyInit ==
  /\ mode = "call"
  /\ fs = [x \in {PathJoin(WatchDir, ScreenshotFile)} |-> 0]
  /\ config = Config("gemini", TRUE, TRUE)
  /\ processingFiles = {}
  /\ inv = <<>>
  /\ \E stem \in Stems :
       call = [op |-> "classify", stem |-> stem, done |-> FALSE,
               batchSkips |-> FALSE, watcherSkips |-> FALSE, previewSkips |-> FALSE]
  /\ NothingElseRuns

ClassifyCall ==
  /\ call.op = "classify"
  /\ ~call.done
  /\ call' = [call EXCEPT !.done = TRUE,
                          !.batchSkips = isAiProcessedFile(call.stem),
                          !.watcherSkips = LooksProcessed(call.stem),
                          !.previewSkips = isAlreadyProcessed(call.stem)]
  /\ UNCHANGED <<service, mode, fs, now, log, lost, config, diskConfig, events, processingFiles, inv,
                 budget, created, dups, renamedTo, dirs, settings, batch>>

SpecClassify == ClassifyInit /\ [][ClassifyCall]_vars

\* A text longer than the names may get: 49 letters, a blank, 10 letters
LongText == [i \in 1..60 |-> IF i < 50 THEN "a" ELSE IF i = 50 THEN " " ELSE "b"]

SpecialText == <<"E","r","r","o","r",":"," ","4","0","4","!">>

LeadingHyphenText == <<"-","v","2"," ","b","e","t","a">>

\* The texts a backend answers with, the long and the odd ones included
SynthTexts == AnswerTexts \cup {LongText, SpecialText, LeadingHyphenText}

\* BatchSettings.defaultSettings.templates applied to the settings
TemplateSettings ==
  { DefaultSettings,
    [DefaultSettings EXCEPT !.defaultPrefix = <<"w","e","b">>,
                            !.filenameFormat = "{prefix}_{description}"],
    [DefaultSettings EXCEPT !.defaultPrefix = <<"a","p","p">>,
                            !.filenameFormat = "{prefix}-{description}",
                            !.separator = "-"],
    [DefaultSettings EXCEPT !.defaultPrefix = <<"d","o","c","s">>,
                            !.filenameFormat = "{date}_{prefix}_{description}"] }

\* The separators the batch setup offers
Separators == {"_", "-", "."}

\* The default settings with each of the separators
SeparatorSettings == {[DefaultSettings EXCEPT !.separator = sep] : sep \in Separators}

\* The stem FolderWatcher.generateFileName builds before conflict resolution
WatcherStem(analysis, t) ==
  LET fileName == CleanChain(analysis)
  IN IF IsGenericName(fileName) THEN TimestampName(fileName, <<>>, t) ELSE fileName

\* The names the watcher and the batch run synthesize from the text a
\* backend answered with, which analyzeImage trims and cleans first, and the
\* name generateFilename gives for the text itself; and the text cleaned by
\* cleanFilename, and that cleaned again by generateFileName
SynthInit ==
  /\ mode = "call"
  /\ fs = [x \in {PathJoin(WatchDir, ScreenshotFile)} |-> 0]
  /\ config = Config("lmstudio", FALSE, FALSE)
  /\ processingFiles = {}
  /\ inv = <<>>
  /\ \E text \in SynthTexts, batchSettings \in TemplateSettings \cup SeparatorSettings :
       call = [op |-> "synthesize", text |-> text, settings |-> batchSettings,
               done |-> FALSE, watcherStem |-> <<>>, batchNamed |-> FALSE,
               batchStem |-> <<>>, direct |-> <<>>, cleaned |-> <<>>, recleaned |-> <<>>]
  /\ NothingElseRuns

SynthesizeCall ==
  /\ call.op = "synthesize"
  /\ ~call.done
  /\ \E t \in ClockReadings :
       LET analysis == analyzeImage(ProviderOf(config), Initialized(config), ScreenshotFile,
                                    TextOutcome(call.text), t)
           batchName == generateFilename(analysis, PngExt, call.settings, t)
       IN /\ now' = t
          /\ call' = [call EXCEPT !.done = TRUE,
                                  !.watcherStem = WatcherStem(analysis, t),
                                  !.batchNamed = ~isGenericFallback(analysis),
                                  !.batchStem = IF isGenericFallback(analysis) THEN <<>>
                                                ELSE BaseName(batchName, PngExt),
                                  !.direct = generateFilename(call.text, PngExt,
                                                              call.settings, t),
                                  !.cleaned = cleanFilename(call.text),
                                  !.recleaned = CleanChain(cleanFilename(call.text))]
  /\ UNCHANGED <<service, mode, fs, log, lost, config, diskConfig, events, processingFiles, inv,
                 budget, created, dups, renamedTo, dirs, settings, batch>>

SpecSynth == SynthInit /\ [][SynthesizeCall]_vars

(***************************************************************************)
(* batch-previewer.js: generatePreview on a folder                         *)
(***************************************************************************)
SecondScreenshotFile == <<"S","c","r","e","e","n","s","h","o","t"," ","2",".","p","n","g">>

\* The names a previewed folder may hold
PreviewPool ==
  {ScreenshotFile, SecondScreenshotFile, UpperExtFile, ProcessedFile, LoginScreenFile, TextFile}

PreviewInit ==
  /\ mode = "call"
  /\ config = Config("gemini", TRUE, FALSE)
  /\ processingFiles = {}
  /\ inv = <<>>
  /\ \E names \in SUBSET PreviewPool :
       fs = [x \in {PathJoin(WatchDir, n) : n \in names} |-> 0]
  /\ call = [op |-> "generatePreview", done |-> FALSE,
             result |-> generatePreview(<<>>, DefaultSettings, 0)]
  /\ now = 0
  /\ log = {}
  /\ lost = {}
  /\ diskConfig = config
  /\ events = {}
  /\ created = 0
  /\ dups = 0
  /\ renamedTo = {}
  /\ dirs = {WatchDir}
  /\ \E processMode \in {"rename", "copy"}, skipProcessed \in BOOLEAN :
       settings = BatchSettingsOf(processMode, skipProcessed, FALSE)
  /\ batch = IdleBatch
  /\ budget = NoBudget
  /\ service = IdleService

GeneratePreviewCall ==
  /\ call.op = "generatePreview"
  /\ ~call.done
  /\ call' = [call EXCEPT !.done = TRUE,
                          !.result = generatePreview(getImageFiles(WatchDir), settings, now)]
  /\ UNCHANGED <<service, mode, fs, now, log, lost, config, diskConfig, events, processingFiles, inv,
                 budget, created, dups, renamedTo, dirs, settings, batch>>

SpecPreview == PreviewInit /\ [][GeneratePreviewCall]_vars

(***************************************************************************)
(* FolderWatcher: start, stop and updateConfig                             *)
(***************************************************************************)
\* this.watcher = null
NoWatcher == ""

\* A folder that is configured but does not exist
GoneDir == "gone"

\* Bound: the calls of start, stop and updateConfig on one FolderWatcher
MaxCalls == 4

\* A start() that does not look at this.watcher
NeverRunning(watcher) == FALSE

\* if (this.watcher): the watcher service is already running
AlreadyRunning(watcher) == watcher # NoWatcher

\* The FolderWatcher after its constructor: no watcher, and no chokidar
\* watcher is open; the configuration file names a folder, a folder that
\* does not exist, or none
LifecycleInit ==
  /\ mode = "call"
  /\ fs = [x \in {PathJoin(WatchDir, ScreenshotFile)} |-> 0]
  /\ \E folder \in {WatchDir, DestDir, GoneDir, ""} :
       config = [Config("gemini", TRUE, FALSE) EXCEPT !.watchFolder = folder]
  /\ processingFiles = {}
  /\ inv = <<>>
  /\ call = [op |-> "lifecycle", watcher |-> NoWatcher, open |-> <<>>, history |-> <<>>]
  /\ now = 0
  /\ log = {}
  /\ lost = {}
  /\ diskConfig = config
  /\ events = {}
  /\ budget = NoBudget
  /\ created = 0
  /\ dups = 0
  /\ renamedTo = {}
  /\ dirs = {WatchDir, DestDir}
  /\ settings = DefaultSettings
  /\ batch = IdleBatch
  /\ service = IdleService

\* FolderWatcher.start()
FolderWatcherStart ==
  /\ call.op = "lifecycle"
  /\ Len(call.history) < MaxCalls
  /\ IF AlreadyRunning(call.watcher)
     THEN /\ log' = log \cup {LogEntry("warn", "Watcher service already running", <<>>)}
          /\ call' = [call EXCEPT !.history = Append(call.history, "start")]
          /\ UNCHANGED config
     ELSE /\ config' = diskConfig
          /\ IF diskConfig.watchFolder = "" \/ diskConfig.watchFolder \notin dirs
             THEN /\ log' = log \cup {LogEntry("error", "Watch folder is invalid or not configured",
                                               <<>>)}
                  /\ call' = [call EXCEPT !.history = Append(call.history, "start")]
             ELSE /\ log' = log \cup {LogEntry("info", "Starting to watch folder", <<>>)}
                  /\ call' = [call EXCEPT !.history = Append(call.history, "start"),
                                          !.watcher = diskConfig.watchFolder,
                                          !.open = Append(call.open, diskConfig.watchFolder)]
  /\ UNCHANGED <<service, mode, fs, now, lost, diskConfig, events, processingFiles, inv,
                 budget, created, dups, renamedTo, dirs, settings, batch>>

\* The chokidar watchers that stay open when this.watcher is closed
CloseWatcher(open, watcher) ==
  LET first == CHOOSE i \in 1..Len(open) : open[i] = watcher
  IN [i \in 1..(Len(open) - 1) |-> IF i < first THEN open[i] ELSE open[i + 1]]

\* this.stop() as a step of another method: the watcher is closed and
\* this.watcher is null
Stopped(c) ==
  IF c.watcher # NoWatcher
  THEN [c EXCEPT !.watcher = NoWatcher, !.open = CloseWatcher(c.open, c.watcher)]
  ELSE c

\* FolderWatcher.stop()
FolderWatcherStop ==
  /\ call.op = "lifecycle"
  /\ Len(call.history) < MaxCalls
  /\ call' = [Stopped(call) EXCEPT !.history = Append(call.history, "stop")]
  /\ log' = IF call.watcher # NoWatcher
            THEN log \cup {LogEntry("info", "File watcher stopped", <<>>)} ELSE log
  /\ UNCHANGED <<service, mode, fs, now, lost, config, diskConfig, events, processingFiles, inv,
                 budget, created, dups, renamedTo, dirs, settings, batch>>

\* The configuration updateConfig is called with: a watch folder, or a
\* change that names no folder
NewConfigs == {[watchFolder |-> f] : f \in {WatchDir, DestDir}} \cup {[copyToClipboard |-> TRUE]}

\* { ...this.config, ...newConfig }
Merged(cfg, newConfig) ==
  [k \in DOMAIN cfg |-> IF k \in DOMAIN newConfig THEN newConfig[k] ELSE cfg[k]]

\* FolderWatcher.updateConfig(newConfig): the merged configuration is
\* stored and saved, and then compared with newConfig
FolderWatcherUpdateConfig(newConfig) ==
  /\ call.op = "lifecycle"
  /\ Len(call.history) < MaxCalls
  /\ LET merged == Merged(config, newConfig)
         changed == /\ "watchFolder" \in DOMAIN newConfig
                    /\ newConfig.watchFolder # merged.watchFolder
         stopped == Stopped(call)
     IN /\ diskConfig' = merged
        /\ config' = merged
        /\ IF ~changed
           THEN /\ call' = [call EXCEPT !.history = Append(call.history, "updateConfig")]
                /\ UNCHANGED log
           ELSE IF merged.watchFolder = "" \/ merged.watchFolder \notin dirs
           THEN /\ call' = [stopped EXCEPT !.history = Append(call.history, "updateConfig")]
                /\ log' = log \cup {LogEntry("error", "Watch folder is invalid or not configured",
                                             <<>>)}
           ELSE /\ call' = [stopped EXCEPT !.history = Append(call.history, "updateConfig"),
                                           !.watcher = merged.watchFolder,
                                           !.open = Append(stopped.open, merged.watchFolder)]
                /\ log' = log \cup {LogEntry("info", "Starting to watch folder", <<>>)}
  /\ UNCHANGED <<service, mode, fs, now, lost, events, processingFiles, inv,
                 budget, created, dups, renamedTo, dirs, settings, batch>>

LifecycleNext ==
  \/ FolderWatcherStart
  \/ FolderWatcherStop
  \/ \E newConfig \in NewConfigs : FolderWatcherUpdateConfig(newConfig)

SpecLifecycle == LifecycleInit /\ [][LifecycleNext]_vars

(***************************************************************************)
(* network-security.js: secureRequest                                      *)
(***************************************************************************)
\* this.retryLimits
GeminiRetryLimit == 3

LMStudioRetryLimit == 2

\* this.retryLimits[provider] || 3
DefaultRetryLimit == 3

RetryLimit(provider) ==
  CASE provider = "gemini" -> GeminiRetryLimit
    [] provider = "lmstudio" -> LMStudioRetryLimit
    [] OTHER -> DefaultRetryLimit

\* How one makeRequest ends: a response with a 2xx, 4xx or 5xx status, or a
\* rejection (timeout, connection refused), which carries no status
Responses == {"2xx", "4xx", "5xx", "error"}

\* Every request that did not succeed is tried again
AnyFailure(response) == response # "2xx"

\* The attempt lands in the catch block and is not rethrown there: a 5xx
\* response is thrown as an Error without a status, and a rejection of
\* makeRequest has none either; a 4xx response is returned to the caller
Retryable(response) == response \in {"5xx", "error"}

\* The for loop of secureRequest from the given attempt on
RECURSIVE RequestLoop(_, _, _)
RequestLoop(attempt, maxRetries, responses) ==
  IF attempt > maxRetries
  THEN [requests |-> attempt - 1, outcome |-> "threw", last |-> responses[attempt - 1]]
  ELSE IF Retryable(responses[attempt])
  THEN RequestLoop(attempt + 1, maxRetries, responses)
  ELSE [requests |-> attempt, outcome |-> "returned", last |-> responses[attempt]]

\* secureRequest(url, options, provider); allowed is what checkRateLimit
\* answers, responses how the requests would end one after the other
secureRequest(provider, allowed, responses) ==
  IF ~allowed THEN [requests |-> 0, outcome |-> "threw", last |-> "ratelimit"]
  ELSE RequestLoop(1, RetryLimit(provider), responses)

\* Bound: the number of requests whose outcome is drawn
MaxAttempts == 4

RequestInit ==
  /\ mode = "call"
  /\ fs = [x \in {PathJoin(WatchDir, ScreenshotFile)} |-> 0]
  /\ config = Config("gemini", TRUE, FALSE)
  /\ processingFiles = {}
  /\ inv = <<>>
  /\ \E provider \in Providers, allowed \in BOOLEAN,
        responses \in [1..MaxAttempts -> Responses] :
       call = [op |-> "secureRequest", provider |-> provider, allowed |-> allowed,
               responses |-> responses, done |-> FALSE,
               result |-> [requests |-> 0, outcome |-> "", last |-> ""]]
  /\ NothingElseRuns

SecureRequestCall ==
  /\ call.op = "secureRequest"
  /\ ~call.done
  /\ call' = [call EXCEPT !.done = TRUE,
                          !.result = secureRequest(call.provider, call.allowed,
                                                   call.responses)]
  /\ UNCHANGED <<service, mode, fs, now, log, lost, config, diskConfig, events,
                 processingFiles, inv, budget, created, dups, renamedTo, dirs, settings, batch>>

SpecRequest == RequestInit /\ [][SecureRequestCall]_vars

(***************************************************************************)
(* Properties                                                              *)
(***************************************************************************)
\* The invocations at work on a path: past the in-flight guard, not returned
InFlight(path) == {i \in DOMAIN inv : inv[i].path = path /\ inv[i].pc # "done"}

\* C1: at most one handleNewFile invocation is past the in-flight guard for
\* a given path at any time
C1_OneInvocationPerPath ==
  \A i \in DOMAIN inv : Cardinality(InFlight(inv[i].path)) <= 1

\* C2: the 'add' event of a path the watcher renamed a file to is rejected
\* by the already-processed check, so no invocation ever works on such a path
C2_RenamedPathRejected ==
  \A i \in DOMAIN inv : inv[i].path \notin renamedTo

\* C3: no rename of the watcher lands on a name that exists at that moment,
\* so no file is ever destroyed by an overwrite
C3_NoOverwrite == lost = {}

\* stem + ext for k = 1, stem_k + ext beyond
NameWithSuffix(stem, ext, k) ==
  IF k = 1 THEN stem \o ext ELSE stem \o <<"_">> \o NatToChars(k) \o ext

\* stem + ext when it is free, else stem_k + ext for the smallest k >= 2
\* that is free
SmallestFree(stem, ext, names) ==
  IF stem \o ext \notin names THEN stem \o ext
  ELSE LET k == CHOOSE n \in 2..(Cardinality(names) + 2) :
                  /\ NameWithSuffix(stem, ext, n) \notin names
                  /\ \A m \in 2..(n - 1) : NameWithSuffix(stem, ext, m) \in names
       IN NameWithSuffix(stem, ext, k)

\* C4: in a directory nobody else writes to, conflict resolution (the loop
\* of the watcher's generateFileName and findUniqueFilename of the batch
\* run) returns stem.ext when that name is free, and otherwise stem_k.ext
\* for the smallest k >= 2 whose name is free
C4_SmallestFreeName ==
  /\ \A i \in DOMAIN inv :
       inv[i].pc = "renaming" /\ inv[i].counter >= 1 =>
         inv[i].newName = SmallestFree(inv[i].stem, inv[i].ext, NamesIn(inv[i].dir))
  /\ call.op = "findUniqueFilename" /\ call.done =>
       call.result = SmallestFree(BaseName(call.baseFilename, ExtName(call.baseFilename)),
                                  ExtName(call.baseFilename), NamesIn(call.directory))

\* C4 witness: the watcher's loop ended on the suffix MaxSuffix after it
\* found the plain name and every smaller suffix taken
C4_Witness ==
  \E i \in DOMAIN inv :
    /\ inv[i].pc = "renaming"
    /\ inv[i].counter = MaxSuffix
    /\ inv[i].newName = NameWithSuffix(inv[i].stem, inv[i].ext, MaxSuffix)

\* C5: whatever the backend and however the inference call fails, a missing
\* credential included, analyzeImage returns a non-empty string
C5_AlwaysAName ==
  call.op = "analyzeImage" /\ call.done => ~Falsy(call.result)

\* The file names the watcher's renames produce
RenamedOutcomes == {"renamed", "copied", "clipfail"}

\* (image|screenshot|stem)_<13 digits> followed by ext
IsStampedName(name, stem, ext) ==
  \E w \in {ImageWord, ScreenshotWord, stem} :
    /\ Len(name) = Len(w) + 1 + TimestampLen + Len(ext)
    /\ SubSeq(name, 1, Len(w) + 1) = w \o <<"_">>
    /\ AllDigits(SubSeq(name, Len(w) + 2, Len(w) + 1 + TimestampLen))
    /\ EndsWith(name, ext)

\* (image|screenshot)_<13 digits>, an optional conflict suffix _<k>, and ext
IsFallbackFileName(name, ext) ==
  \E w \in {ImageWord, ScreenshotWord} :
    LET head == Len(w) + 1 + TimestampLen
        rest == SubSeq(name, head + 1, Len(name))
    IN /\ Len(name) >= head + Len(ext)
       /\ SubSeq(name, 1, Len(w) + 1) = w \o <<"_">>
       /\ AllDigits(SubSeq(name, Len(w) + 2, head))
       /\ \/ rest = ext
          \/ /\ Len(rest) >= Len(ext) + 2
             /\ rest[1] = "_"
             /\ AllDigits(SubSeq(rest, 2, Len(rest) - Len(ext)))
             /\ EndsWith(rest, ext)

\* The file the batch loop handled last
LastBatchFile == batch.files[batch.idx - 1]

C7_UnmarkedOnReturn ==
  \A p \in processingFiles : InFlight(p) # {}

\* C7 witness: handlers have returned through the vanished-file return, the
\* no-result return, a failed rename and a failed clipboard copy, and their
\* paths are not in-flight
C7_Witness ==
  /\ \E i \in DOMAIN inv :
       /\ inv[i].outcome \in {"vanished", "noresult", "renamefail", "clipfail"}
       /\ inv[i].path \notin processingFiles
  /\ \A i \in DOMAIN inv : inv[i].pc = "done"

\* A finished clipboard call on macOS for a file that exists
ClipCallDone ==
  call.op = "copyImageToClipboard" /\ call.done /\ call.env.isMacOS /\ call.fileExists

\* C8: copyImageToClipboard invokes the strategies in the fixed order Swift
\* helper, AppleScript, pbcopy, stops at the first that succeeds (so the
\* third one's success after two failures makes the call succeed), and
\* never invokes more than three
C8_FirstSuccessStops ==
  ClipCallDone =>
    LET tried == call.result.tried
        n == Len(tried)
    IN /\ n \in 1..3
       /\ tried = SubSeq(<<"Swift Helper", "AppleScript", "pbcopy">>, 1, n)
       /\ \A j \in 1..(n - 1) : MethodResult(tried[j], call.env) # "true"
       /\ (call.result.result = "true") = (MethodResult(tried[n], call.env) = "true")
       /\ call.result.result # "true" => n = 3

\* C8 witness: the first two strategies failed and the third succeeded
C8_Witness ==
  /\ ClipCallDone
  /\ call.result.result = "true"
  /\ call.result.tried = <<"Swift Helper", "AppleScript", "pbcopy">>

\* Every strategy was invoked and none succeeded
AllStrategiesFailed ==
  /\ call.result.tried = <<"Swift Helper", "AppleScript", "pbcopy">>
  /\ \A j \in 1..3 : MethodResult(call.result.tried[j], call.env) # "true"

\* C9 as stated: copyImageToClipboard surfaces a failure only when all
\* three strategies have been attempted and each failed
C9_FailureOnlyAfterAllThree ==
  call.op = "copyImageToClipboard" /\ call.done /\ call.result.result = "throw" =>
    AllStrategiesFailed

\* C9 amended: copyImageToClipboard surfaces a failure only when the platform
\* is not macOS or the file does not exist (then no strategy is attempted),
\* or when all three strategies have been attempted and each failed
C9_FailureOnlyAfterAllThreeOrPrecondition ==
  call.op = "copyImageToClipboard" /\ call.done /\ call.result.result = "throw" =>
    \/ (~call.env.isMacOS \/ ~call.fileExists) /\ call.result.tried = <<>>
    \/ call.env.isMacOS /\ call.fileExists /\ AllStrategiesFailed

\* C9 witness: a call on macOS for an existing file failed after a strategy
\* failed and the later ones were still tried
C9_Witness ==
  /\ ClipCallDone
  /\ call.result.result = "throw"
  /\ AllStrategiesFailed

\* C10: a clipboard failure after a successful rename, in the watcher and in
\* the batch run's rename mode, leaves the file under its new name and is
\* recorded as a clipboard warning, not as a rename or filesystem error
C10_ClipboardFailureIsWarning ==
  /\ \A i \in DOMAIN inv :
       inv[i].outcome = "clipfail" =>
         /\ inv[i].pc = "done"
         /\ PathJoin(inv[i].path.dir, inv[i].newName) \in renamedTo
         /\ LogEntry("error", "Error renaming file", inv[i].path.name) \notin log
  /\ batch.last = "processed-clipfail" =>
       /\ LogEntry("warn", "Clipboard copy failed", LastBatchFile.name) \in log
       /\ LogEntry("error", "Error renaming file", LastBatchFile.name) \notin log

\* A part of a stem that counts as a descriptive word
MeaningfulPart(part) ==
  /\ Len(part) >= 3
  /\ \E i \in 1..Len(part) : ~IsDigit(part[i])
  /\ part \notin {ImageWord, ScreenshotWord, ImgWord, PicWord, PhotoWord}

\* The parts of the lower-cased stem, split on the underscore
PartsOf(stem) == SplitOn(ToLowerCase(stem), "_")

\* At least 3 parts, of which at least 2 are meaningful
ProcessedByRule(stem) ==
  /\ Len(PartsOf(stem)) >= 3
  /\ Cardinality({i \in 1..Len(PartsOf(stem)) : MeaningfulPart(PartsOf(stem)[i])}) >= 2

\* C14 (amended): isAiProcessedFile returns true for a stem exactly when
\* splitting the lower-cased stem on '_' gives at least 3 parts of which at
\* least 2 are meaningful; it returns false for every stem with fewer than 3
\* parts, for image_<13 digits> and screenshot_<13 digits>, and true for
\* login_screen_error_message
C14_ClassifierRule ==
  call.op = "classify" /\ call.done =>
    /\ call.batchSkips = ProcessedByRule(call.stem)
    /\ Len(PartsOf(call.stem)) < 3 => ~call.batchSkips
    /\ call.stem \in {ImageWord \o <<"_">> \o DateNow(0),
                       ScreenshotWord \o <<"_">> \o DateNow(0)} => ~call.batchSkips
    /\ call.stem = LoginScreenErrorMessage => call.batchSkips

\* C14 as stated: the stem itself is split and its parts are compared with
\* the generic terms as they are written
C14_ClassifierRuleAsStated ==
  call.op = "classify" /\ call.done =>
    LET parts == SplitOn(call.stem, "_")
    IN call.batchSkips =
         /\ Len(parts) >= 3
         /\ Cardinality({i \in 1..Len(parts) : MeaningfulPart(parts[i])}) >= 2

\* C14 witness: a stem of three parts with only one meaningful part was
\* classified as not processed
C14_Witness ==
  /\ call.op = "classify"
  /\ call.done
  /\ call.stem = JoinParts(<<ImageWord, LoginWord, DateNow(0)>>)
  /\ ~call.batchSkips

\* C15: the watcher rejects a new file as already processed exactly when
\* the Already-Processed Classifier classifies its stem as processed; a
\* file named image_<13 digits> or screenshot_<13 digits> is not rejected
C15_WatcherUsesClassifier ==
  call.op = "classify" /\ call.done =>
    /\ call.watcherSkips = call.batchSkips
    /\ call.stem \in {ImageWord \o <<"_">> \o DateNow(0),
                       ScreenshotWord \o <<"_">> \o DateNow(0)} => ~call.watcherSkips

\* Lower-case letters, digits and the underscore only, no underscore at
\* either end, between 1 and 50 characters
IsCleanStem(stem) ==
  /\ stem # <<>>
  /\ \A i \in 1..Len(stem) : IsLower(stem[i]) \/ IsDigit(stem[i]) \/ stem[i] = "_"
  /\ stem[1] # "_"
  /\ stem[Len(stem)] # "_"
  /\ Len(stem) <= 50

\* C20: for every analyzer text the name the watcher's generateFileName and
\* the batch run's generateFilename produce has a non-empty stem of
\* lower-case letters, digits and underscores, without a leading or trailing
\* separator, at most 50 characters long
C20_CleanBoundedStem ==
  call.op = "synthesize" /\ call.done =>
    /\ IsCleanStem(call.watcherStem)
    /\ call.batchNamed => IsCleanStem(call.batchStem)

\* The names in a set that getImageFiles would list
ImageNames(names) == {n \in names : ToLowerCase(ExtName(n)) \in AllowedExtensions}

\* C11: a batch preview run never renames, copies, creates or deletes a
\* file: the listings of the target directory and of the copy destination
\* are the same before and after, and totalFiles is the number of files of
\* the directory whose extension is one of the file types
C11_PreviewTouchesNothing ==
  mode = "batch" /\ batch.pc = "done" /\ batch.previewed =>
    /\ NamesIn(batch.folder) = batch.before
    /\ NamesIn(settings.copyDestination) = batch.beforeDest
    /\ batch.totalFiles = Cardinality(ImageNames(batch.before))

\* The run is inside the per-file loop
LoopPcs == {"loop", "analyzing", "operating"}

ErrorOutcomes == {"analysis-error", "operation-error"}

\* C12: in a batch apply run a failure while handling one file never stops
\* the loop: the loop is left only when every file of the listing was
\* handled, a step that counts an error leaves the file system, the
\* results and the other counters alone and goes on with the next file, and
\* at the end every listed file was handled and counted once
C12_FailureDoesNotStopLoop ==
  /\ [](mode = "batch" /\ batch.pc = "done" /\ batch.connected =>
          /\ Len(batch.handled) = Len(batch.files)
          /\ \A i \in 1..Len(batch.files) : batch.handled[i].file = batch.files[i]
          /\ batch.processed + batch.skipped + batch.errors = Len(batch.files))
  /\ [][mode = "batch" /\ batch.pc \in LoopPcs =>
          /\ \/ batch'.pc \in LoopPcs
             \/ batch'.pc = "done" /\ batch.idx > Len(batch.files)
          /\ batch'.errors > batch.errors =>
               /\ fs' = fs
               /\ batch'.pc = "loop"
               /\ batch'.idx = batch.idx + 1
               /\ batch'.processed = batch.processed
               /\ batch'.skipped = batch.skipped
               /\ batch'.results = batch.results]_vars

\* C12 witness: the run is through, and a file that failed is followed by
\* a file that was renamed or copied
C12_Witness ==
  /\ mode = "batch"
  /\ batch.pc = "done"
  /\ batch.connected
  /\ \E i, j \in 1..Len(batch.handled) :
       /\ i < j
       /\ batch.handled[i].outcome \in ErrorOutcomes
       /\ batch.handled[j].outcome = "processed"

\* C13: the batch run handles the files one after another in the
\* lexicographic order of the listing taken at its start: the listing is
\* strictly increasing and holds the image files that were in the folder at
\* the start, the files handled so far are the first idx - 1 files of the
\* listing in their order, and the file being analyzed, renamed or copied
\* is the next one, so no file starts before its predecessor is through and
\* none is handled twice, whatever names the renames create
C13_SequentialInListingOrder ==
  mode = "batch" /\ batch.connected =>
    /\ \A i \in 1..(Len(batch.files) - 1) :
         StrLess(batch.files[i].name, batch.files[i + 1].name)
    /\ {batch.files[i] : i \in 1..Len(batch.files)} =
         {PathJoin(batch.folder, n) : n \in ImageNames(batch.before)}
    /\ Len(batch.handled) = batch.idx - 1
    /\ \A k \in 1..Len(batch.handled) : batch.handled[k].file = batch.files[k]
    /\ batch.pc \in {"analyzing", "operating"} => batch.idx \in 1..Len(batch.files)

\* C13 witness: the run is through, every file was handled once, and a
\* rename created a name that sorts after the file it was made from
C13_Witness ==
  /\ mode = "batch"
  /\ batch.pc = "done"
  /\ batch.connected
  /\ Len(batch.handled) = Len(batch.files)
  /\ \E i \in 1..Len(batch.handled) :
       \E n \in ImageNames(NamesIn(batch.folder)) \ batch.before :
         /\ batch.handled[i].outcome = "processed"
         /\ StrLess(batch.files[i].name, n)

\* C16: a handleNewFile invocation uses the configuration it loaded for
\* its whole run: the provider it analyzes with, the directory it checks
\* for conflicts and the clipboard flag it acts on are those of that
\* configuration, whatever is reloaded while it is in flight
C16_OneSnapshotPerInvocation ==
  \A i \in DOMAIN inv :
    /\ inv[i].provider # "" => inv[i].provider = ProviderOf(inv[i].loaded)
    /\ inv[i].dir # "" => inv[i].dir = inv[i].loaded.watchFolder
    /\ inv[i].outcome \in {"renamed", "copied", "clipfail"} =>
         inv[i].clipboard = inv[i].loaded.copyToClipboard

\* C17: when the service was stopped and the process has ended, no event
\* was accepted after the stop and every pipeline that was in flight has
\* run to completion
C17_StopLetsPipelinesFinish ==
  mode = "exited" => \A i \in DOMAIN inv : inv[i].pc = "done"

\* The file system of the watcher before the service starts
UntouchedWatchFolder == fs = [x \in {PathJoin(WatchDir, LoginScreenFile)} |-> 0]

\* The configuration passes the checks of the schema
PassesSchema(cfg) ==
  /\ cfg.watchFolder \in dirs
  /\ cfg.aiProvider \in {"", "gemini", "lmstudio", "ollama"}
  /\ cfg.aiProvider \in {"", "gemini"} => cfg.geminiApiKey

C19_UnknownProviderBeforeProcessing ==
  \A i \in DOMAIN inv :
    /\ inv[i].outcome # "threw"
    /\ inv[i].provider # "" => inv[i].provider \in {"gemini", "lmstudio", "ollama"}

\* The requests of a secureRequest call ended as the responses say
RequestCallDone == call.op = "secureRequest" /\ call.done

\* C27: when every attempt ends in a 5xx response secureRequest makes 3
\* retries for provider gemini and 2 retries for provider lmstudio, that is
\* one request and then as many again, and gives up with the last error;
\* it never makes more attempts than that
C27_RetriesUpToLimit ==
  RequestCallDone /\ call.allowed /\ call.provider \in {"gemini", "lmstudio"} =>
    LET limit == IF call.provider = "gemini" THEN 3 ELSE 2
    IN /\ call.result.requests <= 1 + limit
       /\ (\A k \in 1..MaxAttempts : call.responses[k] = "5xx") =>
            /\ call.result.requests = 1 + limit
            /\ call.result.outcome = "threw"

\* C28 (amended): a 4xx response is never retried: it ends the call, is
\* handed to the caller, and is the only request when it answers the first
\* one; a further request is issued only after a 5xx response or after a
\* request that failed without a response (timeout, connection error)
C28_NoRetryAfter4xx ==
  RequestCallDone /\ call.allowed =>
    /\ \A k \in 1..MaxAttempts :
         k < call.result.requests => call.responses[k] \in {"5xx", "error"}
    /\ \A k \in 1..call.result.requests :
         call.responses[k] = "4xx" =>
           /\ call.result.requests = k
           /\ call.result.outcome = "returned"
           /\ call.result.last = "4xx"
    /\ call.responses[1] = "4xx" => call.result.requests = 1

\* C28 as stated: retries are issued only after a 5xx response
C28_RetryOnlyAfter5xx ==
  RequestCallDone /\ call.allowed =>
    /\ \A k \in 1..MaxAttempts : k < call.result.requests => call.responses[k] = "5xx"
    /\ call.responses[1] = "4xx" => call.result.requests = 1

\* C28 witness: the first request was answered with a 4xx status, which went
\* to the caller after that one request, although the next would succeed
C28_Witness ==
  /\ RequestCallDone
  /\ call.allowed
  /\ call.responses[1] = "4xx"
  /\ call.responses[2] = "2xx"
  /\ call.result.requests = 1
  /\ call.result.outcome = "returned"

\* C29: when the inference call of analyzeImage fails transiently, the
\* fallback name is returned only after the call was retried
C29_FallbackOnlyAfterRetries ==
  call.op = "analyzeImage" /\ call.done /\ call.outcome.kind \in {"network", "status"} =>
    call.requests > 1

\* C22: at most one analyzer call is in flight at any time, across all
\* files of the watcher and of the batch run
C22_OneAnalysisAtATime ==
  Cardinality({i \in DOMAIN inv : inv[i].pc = "analyzing"})
    + (IF batch.pc = "analyzing" THEN 1 ELSE 0) <= 1

\* C30: the directory in which generateFileName checks the candidate names
\* is the directory the watcher renames the file into
C30_CheckedWhereRenamed ==
  \A i \in DOMAIN inv : inv[i].dir # "" => inv[i].dir = inv[i].path.dir

\* The steps one invocation of handleNewFile has behind it when it is at pc
StepsBefore(pc) ==
  CASE pc = "debounce" -> {}
    [] pc = "analyzing" -> {"debounce"}
    [] pc = "access" -> {"analyzing", "access"}
    [] pc = "renaming" -> {"analyzing", "access"}
    [] OTHER -> {"debounce", "analyzing", "access", "renaming"}

\* The file name passes the extension filter and the already-processed check
PassesFilters(name) ==
  LET ext == ToLowerCase(ExtName(name))
      fileName == BaseName(name, ext)
  IN /\ ext \in ImageExtensions
     /\ ~(Includes(fileName, <<"_">>) /\ MatchesProcessedPattern(fileName))

\* One step of the watcher keeps the order of every pipeline
PipelineStep ==
  \A i \in DOMAIN inv' :
    IF i \notin DOMAIN inv
    THEN /\ inv'[i].pc = "debounce"
         /\ PassesFilters(inv'[i].path.name)
         /\ inv'[i].path \notin processingFiles
         /\ inv'[i].path \in processingFiles'
    ELSE /\ inv'[i].pc # inv[i].pc => inv[i].pc \in StepsBefore(inv'[i].pc)
         /\ inv'[i].pc = "analyzing" /\ inv[i].pc # "analyzing" => Exists(inv[i].path)
         /\ inv'[i].outcome \in {"renamed", "copied", "clipfail"} /\ inv[i].outcome = "" =>
              /\ inv[i].pc = "renaming"
              /\ PathJoin(inv[i].path.dir, inv[i].newName) \in DOMAIN fs'
              /\ inv[i].path \notin DOMAIN fs'
         /\ inv'[i].published # inv[i].published =>
              /\ inv[i].pc = "renaming"
              /\ inv'[i].outcome \in {"copied", "clipfail"}
              /\ inv'[i].published = PathJoin(inv[i].path.dir, inv[i].newName)
              /\ inv'[i].published # inv[i].path
              /\ inv'[i].published \in DOMAIN fs'

\* C21: within one file's pipeline of the watcher the steps come in the
\* order filters, in-flight mark, debounce with existence re-check, analyze,
\* name synthesis and resolution, rename, publish: the analyzer is called
\* only for a file that passed both filters and still exists after the
\* debounce, and the clipboard copy is attempted only after the rename
\* succeeded and only on the new path
C21_PipelineOrder ==
  /\ [](\A i \in DOMAIN inv :
          /\ PassesFilters(inv[i].path.name)
          /\ inv[i].published # NoPath =>
               /\ inv[i].published \in renamedTo
               /\ inv[i].outcome \in {"copied", "clipfail"})
  /\ [][PipelineStep]_vars

\* C21 witness: one file went through the whole pipeline and its new path
\* was copied to the clipboard, and the event for a name of the processed
\* shape was filtered out before any analysis
C21_Witness ==
  /\ \E i \in DOMAIN inv :
       /\ inv[i].outcome = "copied"
       /\ inv[i].published = PathJoin(inv[i].path.dir, inv[i].newName)
  /\ \E e \in log : e.msg = "Skipping already processed file"

\* The ways an invocation of handleNewFile ends in an error it caught
CaughtOutcomes == {"threw", "renamefail", "clipfail"}

\* The ways an invocation of handleNewFile returns
ReturnOutcomes == CaughtOutcomes \cup {"vanished", "noresult", "same", "renamed", "copied"}

\* A step in which an invocation ends in an error touches that file only:
\* the service keeps running, the pending events and the other invocations
\* are as before, and the path is no longer marked
ErrorStaysInside ==
  \A i \in DOMAIN inv :
    inv[i].outcome = "" /\ inv'[i].outcome \in CaughtOutcomes \cup {"noresult"} =>
      /\ mode' = mode
      /\ service' = service
      /\ events \subseteq events'
      /\ \A j \in DOMAIN inv : j # i => inv'[j] = inv[j]
      /\ inv[i].path \notin processingFiles'
      /\ inv'[i].outcome \in {"threw", "renamefail", "noresult"} => fs' = fs

\* C23: handleNewFile never rejects: an analyzer failure, an unknown
\* provider, a rename error and a clipboard error are caught and logged by
\* the handler, which returns; the watcher keeps running and the other
\* files are not affected
C23_HandlerNeverRejects ==
  /\ [](\A i \in DOMAIN inv :
          /\ inv[i].pc = "done" => inv[i].outcome \in ReturnOutcomes
          /\ inv[i].outcome \in CaughtOutcomes \cup {"noresult"} =>
               /\ \E e \in log : e.level = "error" /\ e.file = inv[i].path.name
               /\ mode \in {"watch", "exited"})
  /\ [][ErrorStaysInside]_vars

\* C23 witness: the handler caught an error for one file, and a file that
\* appeared later was analyzed and renamed
C23_Witness ==
  \E i \in DOMAIN inv, j \in DOMAIN inv :
    /\ i < j
    /\ inv[i].path # inv[j].path
    /\ inv[i].outcome \in CaughtOutcomes
    /\ inv[i].since < inv[j].since
    /\ inv[j].outcome \in {"renamed", "copied"}
    /\ mode = "watch"

\* The files as they are now, the settings file aside
FilesNow == {<<x, fs[x]>> : x \in DOMAIN fs \ {SettingsPath}}

\* C24: a second batch run over a folder a first run has processed without
\* an error, with skipProcessed on and an analyzer that answers as before,
\* skips every file the first run renamed and renames or copies nothing
C24_RerunChangesNothing ==
  mode = "batch" /\ batch.run > 1 /\ settings.skipProcessed /\ batch.firstErrors = 0 =>
    /\ batch.processed = 0
    /\ FilesNow = {f \in batch.firstFs : f[1] # SettingsPath}
    /\ \A k \in 1..Len(batch.handled) :
         batch.handled[k].file \in batch.firstRenamed => batch.handled[k].outcome = "skipped"

\* The image a file of the folder held when the run started
SourceId(name) == CHOOSE k \in 1..Cardinality(BatchFolder) : SortNames(BatchFolder)[k] = name

\* C25: in copy mode every source file is still there unchanged under its
\* name, every processed file has a copy under its resolved name in the
\* copy destination, which exists from then on, and no file that was in
\* the destination has been overwritten
C25_CopyLeavesSources ==
  mode = "batch" /\ settings.processMode = "copy" /\ batch.run = 1 =>
    /\ \A n \in BatchFolder :
         /\ Exists(PathJoin(batch.folder, n))
         /\ fs[PathJoin(batch.folder, n)] = SourceId(n)
    /\ \A k \in 1..Len(batch.results) :
         LET copy == PathJoin(settings.copyDestination, batch.results[k].newName)
         IN /\ Exists(copy)
            /\ fs[copy] = SourceId(batch.results[k].originalName)
            /\ settings.copyDestination \in dirs
            /\ batch.results[k].newName \notin batch.beforeDest
            /\ \A j \in 1..Len(batch.results) :
                 j # k => batch.results[j].newName # batch.results[k].newName
    /\ batch.pc # "start" =>
         \A n \in batch.beforeDest :
           /\ Exists(PathJoin(settings.copyDestination, n))
           /\ fs[PathJoin(settings.copyDestination, n)] = DestImage
    /\ lost = {}

\* C25 witness: a copy run is through; the destination held a file under
\* the name the first copy was to get, and two files with the same
\* description were copied under further names
C25_Witness ==
  /\ mode = "batch"
  /\ settings.processMode = "copy"
  /\ batch.run = 1
  /\ batch.pc = "done"
  /\ DestDir \in dirs
  /\ batch.beforeDest = {LoginScreenFile}
  /\ Len(batch.results) = 2
  /\ batch.results[1].newName = findUniqueFilename(LoginScreenFile, batch.beforeDest)
  /\ batch.results[2].newName
       = findUniqueFilename(LoginScreenFile, batch.beforeDest \cup {batch.results[1].newName})

\* C26: a batch run hands a file to the clipboard only when processMode is
\* rename and copyToClipboard is on, only the new path of a file whose
\* rename has just succeeded, and never in copy or preview mode
C26_ClipboardOnlyInRename ==
  /\ [](mode = "batch" /\ batch.published # <<>> =>
          /\ settings.processMode = "rename"
          /\ settings.copyToClipboard
          /\ ~batch.preview
          /\ ~batch.previewed)
  /\ [][mode = "batch" /\ batch'.published # batch.published /\ batch'.run = batch.run =>
          /\ batch.pc = "operating"
          /\ Len(batch'.published) = Len(batch.published) + 1
          /\ LET filePath == batch.files[batch.idx]
                 newFilePath == batch'.published[Len(batch'.published)]
             IN /\ newFilePath = PathJoin(filePath.dir, batch.finalName)
                /\ newFilePath # filePath
                /\ filePath \in DOMAIN fs
                /\ filePath \notin DOMAIN fs'
                /\ newFilePath \in DOMAIN fs'
                /\ fs'[newFilePath] = fs[filePath]
                /\ batch'.processed = batch.processed + 1]_vars

\* C26 witness: a rename run with copyToClipboard on renamed a file and
\* handed its new path to the clipboard
C26_Witness ==
  /\ mode = "batch"
  /\ settings.processMode = "rename"
  /\ settings.copyToClipboard
  /\ batch.published # <<>>
  /\ batch.published[1] = PathJoin(batch.folder, batch.results[1].newName)

\* The handled files with one of the outcomes
HandledAs(outcomes) ==
  Cardinality({k \in 1..Len(batch.handled) : batch.handled[k].outcome \in outcomes})

\* C31: in a batch apply run every file handled so far is counted in
\* exactly one of processed, skipped and errors, so that at the end the
\* three add up to the number of files of the initial listing; and a file
\* is counted as processed in the step in which its rename or copy put it
\* at the new path
C31_CountersAddUp ==
  /\ [](mode = "batch" =>
          /\ batch.processed = HandledAs({"processed", "processed-clipfail"})
          /\ batch.skipped = HandledAs({"skipped", "no-change"})
          /\ batch.errors = HandledAs(ErrorOutcomes)
          /\ batch.processed + batch.skipped + batch.errors = Len(batch.handled)
          /\ Len(batch.results) = batch.processed
          /\ batch.pc = "done" /\ batch.connected =>
               /\ Len(batch.handled) = Len(batch.files)
               /\ batch.processed + batch.skipped + batch.errors
                    = Cardinality(ImageNames(batch.before)))
  /\ [][mode = "batch" /\ batch'.run = batch.run /\ batch'.processed # batch.processed =>
          LET filePath == batch.files[batch.idx]
              newFilePath == PathJoin(BatchTargetDir(filePath), batch.finalName)
          IN /\ batch.pc = "operating"
             /\ batch'.processed = batch.processed + 1
             /\ filePath \in DOMAIN fs
             /\ newFilePath \in DOMAIN fs'
             /\ fs'[newFilePath] = fs[filePath]
             /\ newFilePath # filePath
             /\ settings.processMode = "rename" => filePath \notin DOMAIN fs'
             /\ batch'.results[Len(batch'.results)].newName = batch.finalName]_vars

\* C31 witness: a run is through in which one file was renamed or copied,
\* one was skipped and one failed
C31_Witness ==
  /\ mode = "batch"
  /\ batch.pc = "done"
  /\ batch.connected
  /\ batch.processed = 1
  /\ batch.skipped = 1
  /\ batch.errors = 1
  /\ Len(batch.files) = 3

\* C32: with skipProcessed on, the batch preview marks a file as skipped
\* exactly when the batch apply run would skip it
C32_PreviewSkipsWhatApplySkips ==
  call.op = "classify" /\ call.done => call.previewSkips = call.batchSkips

\* The entries of a preview that announce a rename or copy
RenameEntries ==
  {i \in 1..Len(call.result.changes) : call.result.changes[i].status = "rename"}

\* C33: in a batch preview the final paths of the entries with status
\* 'rename' are pairwise distinct, also when several files get the same
\* proposed name
C33_PreviewPathsDistinct ==
  call.op = "generatePreview" /\ call.done =>
    \A i \in RenameEntries, j \in RenameEntries :
      i # j => call.result.changes[i].newPath # call.result.changes[j].newPath

\* C34: in batch rename mode a file whose synthesized name is the name it
\* has is left in place and counted as skipped ('No change needed'); it is
\* not renamed to a numbered variant of its own name
C34_SameNameIsNoChange ==
  [][mode = "batch" /\ batch.pc = "analyzing" /\ batch'.pc # "analyzing"
       /\ settings.processMode = "rename"
       /\ ~Falsy(batch'.analysis) /\ ~isGenericFallback(batch'.analysis)
       /\ generateFilename(batch'.analysis,
                           ToLowerCase(ExtName(batch.files[batch.idx].name)),
                           settings, now') = batch.files[batch.idx].name
     => /\ batch'.pc = "loop"
        /\ batch'.last = "no-change"
        /\ batch'.skipped = batch.skipped + 1]_vars

\* C35: for each separator the settings offer, generateFilename returns a
\* name that ends in the original extension and whose stem is not empty; for
\* a description of plain words in the format {description} the stem is the
\* lower-case words joined by the separator
C35_SeparatorJoinsWords ==
  call.op = "synthesize" /\ call.done /\ call.settings \in SeparatorSettings =>
    /\ EndsWith(call.direct, PngExt)
    /\ Len(call.direct) > Len(PngExt)
    /\ call.text = LoginScreenText =>
         call.direct = LoginWord \o <<call.settings.separator>> \o ScreenWord \o PngExt

\* C36: the cleaning transform is idempotent: cleaning the output of
\* cleanFilename again in generateFileName gives that output unchanged, for
\* every text, the texts longer than 50 characters included
C36_CleaningIdempotent ==
  call.op = "synthesize" /\ call.done => call.recleaned = call.cleaned

\* The call of the FolderWatcher a step made
LastCall == call'.history[Len(call'.history)]

\* C37: after any sequence of start() and stop() calls at most one
\* chokidar watcher is open, and it is the one this.watcher holds: start()
\* while running opens no second watcher, start() with a missing or
\* non-existent watch folder leaves the watcher stopped, stop() while
\* stopped does nothing, and start() after stop() watches again
C37_AtMostOneWatcher ==
  /\ [](call.op = "lifecycle" =>
          /\ Len(call.open) <= 1
          /\ call.watcher = NoWatcher <=> call.open = <<>>
          /\ call.watcher # NoWatcher => call.open = <<call.watcher>> /\ call.watcher \in dirs)
  /\ [][call.op = "lifecycle" /\ call'.history # call.history =>
          /\ LastCall = "start" /\ call.watcher # NoWatcher =>
               call'.watcher = call.watcher /\ call'.open = call.open
          /\ LastCall = "start" /\ call.watcher = NoWatcher =>
               IF diskConfig.watchFolder \in {WatchDir, DestDir}
               THEN call'.watcher = diskConfig.watchFolder
               ELSE call'.watcher = NoWatcher /\ call'.open = <<>>
          /\ LastCall = "stop" =>
               /\ call'.watcher = NoWatcher
               /\ call'.open = <<>>
               /\ call.watcher = NoWatcher => log' = log]_vars

\* C37 witness: start, start again while running, stop, and start again:
\* the folder is watched by one watcher
C37_Witness ==
  /\ call.op = "lifecycle"
  /\ call.history = <<"start", "start", "stop", "start">>
  /\ call.watcher = WatchDir
  /\ call.open = <<WatchDir>>

\* C38: updateConfig with a watchFolder that is not the one being watched
\* stops the running watcher and starts one on the new folder; with the
\* same folder, or without a folder, it leaves the watcher running
C38_UpdateConfigRestarts ==
  [][call.op = "lifecycle" /\ call'.history # call.history /\ LastCall = "updateConfig"
       /\ call.watcher # NoWatcher
     => IF diskConfig'.watchFolder # call.watcher
        THEN call'.watcher = diskConfig'.watchFolder /\ call'.open = <<diskConfig'.watchFolder>>
        ELSE call'.watcher = call.watcher /\ call'.open = call.open]_vars

====
